---- MODULE Spec2Model ----
(***************************************************************************)
(* SSU-pport notification run (src/main.py): collect the new notifications, *)
(* crawl their content with per-domain grouping and retry, summarise every  *)
(* fetched item through LanggraphPipeline, then mail the result to the      *)
(* subscribers of the item's notification id.                               *)
(*                                                                          *)
(* One run of main() is modelled.  Worker threads of the three thread pools *)
(* are interleaved at the granularity of one task step: the start and the   *)
(* end of a fetch_content call, one pipeline run, one send.                 *)
(***************************************************************************)
EXTENDS Integers, Sequences, FiniteSets, TLC

\* Largest batch of new notifications of one run of main.
MaxItems == 2

\* Largest batch handed to crawl_all_content when it is studied alone.
MaxCrawlItems == 3

\* Largest number of image references of an item.
MaxImages == 3

\* consolidate_suggestions is studied on at most MaxLists lists of at most
\* MaxListLen suggestions each, with max_suggestions up to MaxCount, and
\* generate_parsing_suggestions on at most MaxSchedules schedule entries.
MaxLists == 2

MaxListLen == 2

MaxCount == 3

MaxSchedules == 1

\* build_gcal_urls is studied on schedules of at most MaxEntries entries.
MaxEntries == 2

\* The pool size of crawl_all_content is studied on batches of up to MaxFast
\* fast notifications and up to MaxPerGroup notifications of each other
\* domain.
MaxFast == 22

MaxPerGroup == 2

\* The longest answer of the model, in pieces.
MaxResponseLen == 5

\* Largest batch categorize_notifications is studied on, on its own.
MaxCategorizeItems == 4

\* Largest batch of the send phase studied alone.
MaxSendItems == 2

\* main.py:45  max_retries = 2
max_retries == 2

\* main.py:27  self.fast_domains = {'scatch.ssu.ac.kr'}
fast_domains == {"scatch.ssu.ac.kr"}

\* Domains other than the fast one that a notification link can point to.
other_domains == {"a.ssu.ac.kr", "b.ssu.ac.kr"}

Domains == fast_domains \cup other_domains

\* Ids of the rows of notificationList (dbPostgreSQL.py get_all_ids).
NotificationIds == {1, 2}

\* Titles of the fetched notices, one per position of the batch.
Titles == <<"notice-1", "notice-2", "notice-3", "notice-4", "notice-5">>

VARIABLES
    all_notifications,  \* main: the batch, a sequence of [notification_id, domain]
    phase,              \* main's position: "fetch", "process", "send"
    fetch,              \* per item: the fetch_with_retry call working on it
    calls,              \* per item: outcomes of its fetch_content calls so far
    results,            \* main: the sorted list crawl_all_content returned
    proc,               \* per item: state of its process_ai_summary task
    ai_summary,         \* per item: content_data['ai_summary']
    outcome,            \* per item: what its pipeline run met
    run_result,         \* per item: what LanggraphPipeline.run returned
    final_results,      \* main: items in the order their AI task completed
    send,               \* per item: state / outcome of its send_email task
    mail,               \* per item: the message handed to the SMTP transport
    email_log,          \* rows of the email_log table
    transport_calls,    \* per item: recipient lists given to server.sendmail
    image,              \* graph: the 'image' value of the item given to run
    node,               \* graph: the node the traversal is at
    visits,             \* graph: how often each node has been entered
    ocr_text,           \* graph: outcome and text of each perform_ocr_on_url call
    graph_result,       \* graph: what run returned for the traversal
    suggest_call,       \* SuggestionEngine: the entry point called and its arguments
    suggestions,        \* SuggestionEngine: what that call returned
    unit_call,          \* a function called on its own: which one, on what
    unit_result,        \* what that call returned
    PADDLEOCR_AVAILABLE, \* ocr_tool: whether the import of paddleocr succeeded
    ocr_instance,       \* ocr_tool: the module global _ocr_instance
    ocr_built,          \* ocr_tool: how many PaddleOCR objects were constructed
    ocr_worker          \* per pool worker: its place in _get_ocr_instance

\* One run of main().
runVars == <<all_notifications, phase, fetch, calls, results, proc, ai_summary,
             outcome, run_result, final_results, send, mail, email_log,
             transport_calls>>

\* One traversal of the graph of LanggraphPipeline.
graphVars == <<image, node, visits, ocr_text, graph_result>>

\* One call of a SuggestionEngine method.
suggestVars == <<suggest_call, suggestions>>

\* One call of a function studied on its own.
unitVars == <<unit_call, unit_result>>

\* The OCR engine handle of the process and the workers asking for it.
ocrVars == <<PADDLEOCR_AVAILABLE, ocr_instance, ocr_built, ocr_worker>>

vars == <<runVars, graphVars, suggestVars, unitVars, ocrVars>>

\* _ocr_instance = None (tools/ocr_tool.py:27).
NoInstance == 0

\* tools.ocr_tool has been imported and no worker has asked for the handle.
OcrIdle ==
    /\ PADDLEOCR_AVAILABLE = TRUE
    /\ ocr_instance = NoInstance
    /\ ocr_built = 0
    /\ ocr_worker = <<>>

\* No such call has been made.
UnitIdle ==
    /\ unit_call = [fn |-> "none"]
    /\ unit_result = [raised |-> FALSE, value |-> <<>>]

Items == 1 .. Len(all_notifications)

Range(s) == {s[k] : k \in 1 .. Len(s)}

Indices(batch) == [k \in 1 .. Len(batch) |-> k]

-----------------------------------------------------------------------------
(* The batch main() collects (main.py:184-189): for every id of            *)
(* get_all_ids(), which is ORDER BY id, the new notifications of that id.   *)

IdsNonDecreasing(batch) ==
    \A k \in 1 .. Len(batch) - 1 :
        batch[k].notification_id <= batch[k + 1].notification_id

Notification == [notification_id : NotificationIds, domain : Domains]

\* The code compares domains only with each other and with fast_domains, so
\* the other domains are named in the order in which they first appear.
DomainsInOrder(batch) ==
    \A k \in 1 .. Len(batch) :
        batch[k].domain = "b.ssu.ac.kr"
            => \E j \in 1 .. k - 1 : batch[j].domain = "a.ssu.ac.kr"

\* Likewise ids are only compared with each other and looked up in the
\* subscriber dict, so the smallest id of the batch is 1.
Batches(n) ==
    {b \in UNION {[1 .. m -> Notification] : m \in 1 .. n} :
        /\ IdsNonDecreasing(b)
        /\ DomainsInOrder(b)
        /\ b[1].notification_id = 1}

-----------------------------------------------------------------------------
(* ContentCrawler.categorize_notifications                                  *)

\* Variant: no domain is recognised as a fast one.
fast_notifications_none(batch) == <<>>

fast_notifications(batch) ==
    SelectSeq(Indices(batch), LAMBDA k : batch[k].domain \in fast_domains)

\* Keys of domain_groups in insertion order (a dict keeps first-insertion order).
domain_keys(batch) ==
    LET first == SelectSeq(Indices(batch),
                     LAMBDA k : /\ batch[k].domain \notin fast_domains
                                /\ \A j \in 1 .. k - 1 :
                                       batch[j].domain # batch[k].domain)
    IN  [k \in 1 .. Len(first) |-> batch[first[k]].domain]

\* domain_groups[d]: the notifications of domain d, in input order.
domain_groups(batch, d) ==
    SelectSeq(Indices(batch),
              LAMBDA k : batch[k].domain = d /\ d \notin fast_domains)

IsFast(i) == all_notifications[i].domain \in fast_domains

\* main.py:83  min(20, len(fast_notifications))
fast_workers_limit == 20

\* Variant: one worker per fast notification, however many there are.
max_workers_uncapped(batch) ==
    LET workers == Len(domain_keys(batch)) + Len(fast_notifications(batch))
    IN  IF workers < 1 THEN 1 ELSE workers

\* max_workers of the pool of crawl_all_content (main.py:82-84).
max_workers(batch) ==
    LET fast_workers ==
            IF fast_notifications(batch) # <<>>
            THEN (IF Len(fast_notifications(batch)) < fast_workers_limit
                  THEN Len(fast_notifications(batch)) ELSE fast_workers_limit)
            ELSE 0
        workers == Len(domain_keys(batch)) + fast_workers
    IN  IF workers < 1 THEN 1 ELSE workers

\* n notifications of domain d.
Repeat(n, d) == [k \in 1 .. n |-> [notification_id |-> 1, domain |-> d]]

\* Batches of up to MaxFast fast notifications and up to MaxPerGroup
\* notifications of each other domain; the empty batch is one of them.
PoolBatches ==
    {Repeat(f, "scatch.ssu.ac.kr") \o Repeat(a, "a.ssu.ac.kr")
         \o Repeat(b, "b.ssu.ac.kr") :
        f \in 0 .. MaxFast, a \in 0 .. MaxPerGroup, b \in 0 .. MaxPerGroup}

\* crawl_all_content sizes its pool for a batch.
CrawlPoolSize ==
    /\ unit_call = [fn |-> "none"]
    /\ \E batch \in PoolBatches :
          /\ unit_call' = [fn |-> "max_workers", batch |-> batch]
          /\ unit_result' = [raised |-> FALSE, value |-> max_workers(batch)]
    /\ UNCHANGED <<runVars, graphVars, suggestVars, ocrVars>>

\* categorize_notifications (main.py:29-41): the pair it returns.
categorize_notifications(batch) ==
    [fast_notifications |-> fast_notifications(batch),
     domain_groups      |-> [d \in Range(domain_keys(batch)) |->
                                domain_groups(batch, d)]]

\* crawl_all_content categorises a batch.
CategorizeNotifications ==
    /\ unit_call = [fn |-> "none"]
    /\ \E batch \in Batches(MaxCategorizeItems) :
          /\ unit_call' = [fn |-> "categorize_notifications", batch |-> batch]
          /\ unit_result' = [raised |-> FALSE,
                             value  |-> categorize_notifications(batch)]
    /\ UNCHANGED <<runVars, graphVars, suggestVars, ocrVars>>

\* The items process_domain_group handles before item i in its loop.
EarlierInGroup(i) ==
    {j \in Items : j < i /\ all_notifications[j].domain = all_notifications[i].domain}

-----------------------------------------------------------------------------
(* ContentCrawler.fetch_with_retry                                          *)

\* What one fetcher.fetch_content call can do: return content with
\* fetch_success True, return content with fetch_success False and an error,
\* or raise.
FetchOutcomes == {"ok", "fail", "raise"}

Unassigned == [assigned |-> FALSE, fetch_success |-> FALSE, error |-> 0]

\* The content_data fetch_content returns on call number n with outcome o.
\* The error text of call n is identified by n, so that the errors of the
\* attempts of one item are pairwise distinct.
fetch_content(n, o) ==
    IF o = "ok"
    THEN [assigned |-> TRUE, fetch_success |-> TRUE, error |-> 0]
    ELSE [assigned |-> TRUE, fetch_success |-> FALSE, error |-> n]

NewTask == [st |-> "idle", attempt |-> 0, content_data |-> Unassigned]

\* One iteration of the loop of fetch_with_retry: t is the call's state at
\* the fetch_content call of iteration t.attempt, o what that call does.
\* Off-by-one variant: one more retry than max_retries.
fetch_with_retry_extra(t, o) ==
    IF o = "raise"
    THEN [t EXCEPT !.st = "raised"]
    ELSE LET content_data == fetch_content(t.attempt + 1, o) IN
         IF content_data.fetch_success
         THEN [st |-> "returned", attempt |-> t.attempt,
               content_data |-> content_data]
         ELSE IF t.attempt <= max_retries
              THEN [st |-> "idle", attempt |-> t.attempt + 1,
                    content_data |-> content_data]
              ELSE [st |-> "returned", attempt |-> t.attempt,
                    content_data |-> content_data]

fetch_with_retry(t, o) ==
    IF o = "raise"
    THEN [t EXCEPT !.st = "raised"]
    ELSE LET content_data == fetch_content(t.attempt + 1, o) IN
         IF content_data.fetch_success
         THEN [st |-> "returned", attempt |-> t.attempt,
               content_data |-> content_data]
         ELSE IF t.attempt < max_retries
              THEN [st |-> "idle", attempt |-> t.attempt + 1,
                    content_data |-> content_data]
              ELSE [st |-> "returned", attempt |-> t.attempt,
                    content_data |-> content_data]

-----------------------------------------------------------------------------
(* ContentCrawler.process_domain_group and the tasks of crawl_all_content   *)

\* Variant: the loop gives up on the group at the first failed result.
process_domain_group_short_circuit(i) ==
    \A j \in EarlierInGroup(i) :
        fetch[j].st = "returned" /\ fetch[j].content_data.fetch_success

\* Variant: every notification of the group is fetched by its own task.
process_domain_group_parallel(i) == TRUE

\* The loop of process_domain_group has reached notification i: every
\* earlier notification of the group has had its fetch_with_retry return.
process_domain_group(i) ==
    \A j \in EarlierInGroup(i) : fetch[j].st = "returned"

\* The worker of item i's task is positioned at item i.
WorkerAt(i) == IsFast(i) \/ process_domain_group(i)

\* The future of item i's task is done (returned or raised).
FastTaskDone(i) == fetch[i].st \in {"returned", "raised"}

GroupTaskDone(d) ==
    LET g == domain_groups(all_notifications, d) IN
    \/ \A k \in 1 .. Len(g) : fetch[g[k]].st = "returned"
    \/ \E k \in 1 .. Len(g) : fetch[g[k]].st = "raised"

GroupRaised(d) ==
    \E i \in Range(domain_groups(all_notifications, d)) : fetch[i].st = "raised"

AllFetchTasksDone ==
    /\ \A i \in Range(fast_notifications(all_notifications)) : FastTaskDone(i)
    /\ \A d \in Range(domain_keys(all_notifications)) : GroupTaskDone(d)

\* A worker calls fetcher.fetch_content for item i (main.py:50).
FetchStart(i) ==
    /\ phase = "fetch"
    /\ fetch[i].st = "idle"
    /\ WorkerAt(i)
    /\ fetch' = [fetch EXCEPT ![i].st = "fetching"]
    /\ UNCHANGED <<all_notifications, phase, calls, results, proc, ai_summary,
                   outcome, run_result, final_results, send, mail, email_log,
                   transport_calls>>
    /\ UNCHANGED <<graphVars, suggestVars, unitVars, ocrVars>>

\* The fetch_content call of item i ends; fetch_with_retry goes on from it.
FetchFinish(i) ==
    /\ phase = "fetch"
    /\ fetch[i].st = "fetching"
    /\ \E o \in FetchOutcomes :
          /\ fetch' = [fetch EXCEPT ![i] = fetch_with_retry(fetch[i], o)]
          /\ calls' = [calls EXCEPT ![i] = Append(calls[i], o)]
    /\ UNCHANGED <<all_notifications, phase, results, proc, ai_summary,
                   outcome, run_result, final_results, send, mail, email_log,
                   transport_calls>>
    /\ UNCHANGED <<graphVars, suggestVars, unitVars, ocrVars>>

-----------------------------------------------------------------------------
(* ContentCrawler.crawl_all_content: collecting the futures (main.py:103-   *)
(* 116), and the sort of main (main.py:202)                                 *)

\* The content_data of item i as it sits in a result list.
ResultOf(i) ==
    [item            |-> i,
     notification_id |-> all_notifications[i].notification_id,
     fetch_success   |-> fetch[i].content_data.fetch_success,
     error           |-> fetch[i].content_data.error]

ResultsOf(s) == [k \in 1 .. Len(s) |-> ResultOf(s[k])]

\* future.result() of a 'fast' task: the result is appended, unless the
\* call raised (the except of main.py:113 logs and appends nothing).
FastResults ==
    ResultsOf(SelectSeq(fast_notifications(all_notifications),
                        LAMBDA i : fetch[i].st = "returned"))

\* future.result() of the 'group' tasks, in submission order: the list
\* process_domain_group returned, or nothing when the task raised.
RECURSIVE GroupResults(_)
GroupResults(keys) ==
    IF keys = <<>>
    THEN <<>>
    ELSE (IF GroupRaised(Head(keys))
          THEN <<>>
          ELSE ResultsOf(domain_groups(all_notifications, Head(keys))))
         \o GroupResults(Tail(keys))

\* Variant: one loop over the batch collects the results in input order.
crawl_all_content_input_order ==
    ResultsOf(SelectSeq(Indices(all_notifications),
                        LAMBDA i : IF all_notifications[i].domain \in fast_domains
                                   THEN fetch[i].st = "returned"
                                   ELSE ~GroupRaised(all_notifications[i].domain)))

\* The loop of main.py:103-114 walks `futures` in submission order: the
\* 'fast' tasks first (91-93), then the 'group' tasks (96-98).
crawl_all_content == FastResults \o GroupResults(domain_keys(all_notifications))

\* sorted(results, key=lambda x: x['notification_id']): a stable sort.
RECURSIVE SortedFrom(_, _)
SortedFrom(s, n) ==
    IF \A k \in 1 .. Len(s) : s[k].notification_id < n
    THEN <<>>
    ELSE SelectSeq(s, LAMBDA r : r.notification_id = n) \o SortedFrom(s, n + 1)

sorted(s) == SortedFrom(s, 0)

\* What is left of a fetch_with_retry call once crawl_all_content has
\* returned: whether it returned (and what) or raised; its locals are gone.
Retired(t) ==
    IF t.st = "returned"
    THEN [st |-> "returned", attempt |-> 0, content_data |-> t.content_data]
    ELSE [st |-> t.st, attempt |-> 0, content_data |-> Unassigned]

\* Variant: AI tasks are submitted as soon as any result is in.
FetchPhaseOver_streaming ==
    \E i \in Items : fetch[i].st = "returned"

\* The with-block of crawl_all_content is left only when every future is
\* done (the loop calls result() on each, and the executor joins its workers).
FetchPhaseOver == AllFetchTasksDone

\* main.py:201-216: crawl_all_content returns, main sorts the results and
\* submits one process_ai_summary task per result with fetch_success.
CrawlReturn ==
    /\ phase = "fetch"
    /\ FetchPhaseOver
    /\ results' = sorted(crawl_all_content)
    /\ phase' = "process"
    /\ fetch' = [i \in Items |-> Retired(fetch[i])]
    /\ calls' = [i \in Items |-> <<>>]
    /\ proc' = [i \in Items |->
                  IF \E k \in 1 .. Len(results') :
                         results'[k].item = i /\ results'[k].fetch_success
                  THEN "queued" ELSE "none"]
    /\ UNCHANGED <<all_notifications, ai_summary, outcome, run_result,
                   final_results, send, mail, email_log,
                   transport_calls>>
    /\ UNCHANGED <<graphVars, suggestVars, unitVars, ocrVars>>

-----------------------------------------------------------------------------
(* Texts and dicts.  A Python dict is a function from its keys; a text is   *)
(* either the serialisation of a dict or plain words.                       *)

EmptyDict == <<>>

\* d.get(k, default)
Get(d, k, default) == IF k \in DOMAIN d THEN d[k] ELSE default

\* json.dumps of a dict.
JsonText(d) == [kind |-> "json", value |-> d]

\* json.loads: the dict of a JSON text, JSONDecodeError otherwise.
json_loads(text) ==
    IF text.kind = "json"
    THEN [ok |-> TRUE, value |-> text.value]
    ELSE [ok |-> FALSE, value |-> EmptyDict]

\* The title fetch_content extracted for item i.
TitleOf(i) == Titles[i]

\* The structured summary the model writes for a notice with this title.
SummaryDict(title) ==
    [title              |-> title,
     summary            |-> "summary",
     schedule           |-> "schedule",
     target             |-> "target",
     application_method |-> "application_method",
     important_notes    |-> "important_notes"]

-----------------------------------------------------------------------------
(* SuggestionEngine.generate_error_suggestions                              *)

\* error_type and error_message are given by the classifier keywords they
\* contain (lower-cased): 'parsing' contains "parsing" and no other keyword,
\* 'summary' and 'unexpected' contain none.  A value that is no text (None)
\* is NoText: .lower() raises AttributeError for it.
NoText == {"not_text"}

\* The message sets of the classes (SuggestionEngine.py:87-119).
ErrorMessages ==
    [credential   |-> <<"check the API key", "check GOOGLE_API_KEY",
                        "check the API quota">>,
     connectivity |-> <<"check the connection", "retry later",
                        "check the firewall">>,
     malformed    |-> <<"check the input format", "retry", "contact support">>,
     validation   |-> <<"check required fields", "check length and format",
                        "review the input">>,
     other        |-> <<"retry later", "contact the administrator",
                        "record the error">>]

\* Variant: the connection test comes before the key test.
generate_error_suggestions_reordered(error_type, error_message) ==
    IF error_type = NoText \/ ("api" \notin error_type /\ error_message = NoText)
    THEN <<"contact support">>
    ELSE IF "network" \in error_type \/ "connection" \in error_message
    THEN ErrorMessages.connectivity
    ELSE IF "api" \in error_type \/ "key" \in error_message
    THEN ErrorMessages.credential
    ELSE IF "json" \in error_type \/ "parsing" \in error_message
    THEN ErrorMessages.malformed
    ELSE IF "validation" \in error_type
    THEN ErrorMessages.validation
    ELSE ErrorMessages.other

\* generate_error_suggestions (SuggestionEngine.py:81-125).  The first test
\* calls error_type.lower() and, unless 'api' is found, error_message.lower():
\* the except replaces the list by its one fallback message.
generate_error_suggestions(error_type, error_message) ==
    IF error_type = NoText \/ ("api" \notin error_type /\ error_message = NoText)
    THEN <<"contact support">>
    ELSE IF "api" \in error_type \/ "key" \in error_message
    THEN ErrorMessages.credential
    ELSE IF "network" \in error_type \/ "connection" \in error_message
    THEN ErrorMessages.connectivity
    ELSE IF "json" \in error_type \/ "parsing" \in error_message
    THEN ErrorMessages.malformed
    ELSE IF "validation" \in error_type
    THEN ErrorMessages.validation
    ELSE ErrorMessages.other

-----------------------------------------------------------------------------
(* SuggestionEngine (ai/SuggestionEngine.py)                                *)

\* Texts are given by the classifier keywords they contain.  The keywords
\* stand for the Korean words the code looks for:
\*   title, category      "scholarship" (장학), "employment" (취업, 채용),
\*                        "exchange" (교환학생, 해외), "education" (교육, 강의),
\*                        "event" (행사)
\*   description          "deadline" (마감)
\*   application_method   "online" (온라인), "visit" (방문), "email" (이메일)
\*   target               "year" (학년), "department" (학과)
\*   important_notes      "quota" (정원), "documents" (서류), "interview" (면접)
\*   warning              "schedule" (일정), "target" (대상)
\* A text without keywords is {}, which is also the empty text ''.

NoCall == [entry |-> "none"]

\* What a call returns: a list, or no value because it raised.
Returned(list) == [raised |-> FALSE, value |-> list]

Raised == [raised |-> TRUE, value |-> <<>>]

\* No SuggestionEngine call has been made.
SuggestIdle ==
    /\ suggest_call = NoCall
    /\ suggestions = Returned(<<>>)

\* The suggestion texts callers pass in.
Texts == {"s1", "s2", "s3"}

\* A suggestion that cannot be hashed (a list or a dict instead of a text).
Unhashable == "unhashable"

\* A Python list of suggestions, and an element that is no list (a text,
\* None): isinstance(suggestion_list, list) is False for it.
ListOf(items) == [is_list |-> TRUE, items |-> items]

NotAList == [is_list |-> FALSE, items |-> <<>>]

\* Sequences over S of length at most n.
SeqsUpTo(S, n) == UNION {[1 .. m -> S] : m \in 0 .. n}

\* The elements suggestion_lists is built of: lists of texts, something that
\* is no list, and a list holding an unhashable suggestion (where it stands
\* in the list makes no difference to the code).
ElementInputs ==
    {ListOf(l) : l \in SeqsUpTo(Texts, MaxListLen)}
        \cup {NotAList, ListOf(<<Unhashable>>)}

\* suggestion_lists: an iterable of elements, or a value that cannot be
\* iterated (None).
Iterable(items) == [iterable |-> TRUE, items |-> items]

NotIterable == [iterable |-> FALSE, items |-> <<>>]

SuggestionListsInputs ==
    {Iterable(items) : items \in SeqsUpTo(ElementInputs, MaxLists)}
        \cup {NotIterable}

\* max_suggestions: an int, or a value that is no slice index (a text).
Int_(n) == [is_int |-> TRUE, n |-> n]

NotAnInt == [is_int |-> FALSE, n |-> 0]

MaxSuggestionsInputs == {Int_(n) : n \in -2 .. MaxCount} \cup {NotAnInt}

\* Python's s[:n]: the first n elements, or all but the last -n when n < 0.
SliceTo(s, n) ==
    IF n >= 0
    THEN SubSeq(s, 1, IF n < Len(s) THEN n ELSE Len(s))
    ELSE SubSeq(s, 1, IF Len(s) + n > 0 THEN Len(s) + n ELSE 0)

\* all_suggestions after the first loop (SuggestionEngine.py:267-269).
RECURSIVE all_suggestions(_)
all_suggestions(items) ==
    IF items = <<>>
    THEN <<>>
    ELSE (IF Head(items).is_list THEN Head(items).items ELSE <<>>)
             \o all_suggestions(Tail(items))

\* unique_suggestions after the second loop (SuggestionEngine.py:272-278).
RECURSIVE unique_suggestions(_, _)
unique_suggestions(all, seen) ==
    IF all = <<>>
    THEN <<>>
    ELSE IF Head(all) \in seen
         THEN unique_suggestions(Tail(all), seen)
         ELSE <<Head(all)>>
                  \o unique_suggestions(Tail(all), seen \cup {Head(all)})

\* The TypeError cases of the body: suggestion_lists cannot be iterated, a
\* suggestion cannot be hashed, max_suggestions is no slice index.
consolidate_error(suggestion_lists, max_suggestions) ==
    \/ ~suggestion_lists.iterable
    \/ \E k \in 1 .. Len(suggestion_lists.items) :
          /\ suggestion_lists.items[k].is_list
          /\ \E l \in 1 .. Len(suggestion_lists.items[k].items) :
                suggestion_lists.items[k].items[l] = Unhashable
    \/ ~max_suggestions.is_int

\* Variant: the duplicates are kept.
consolidate_suggestions_keep_duplicates(suggestion_lists, max_suggestions) ==
    IF consolidate_error(suggestion_lists, max_suggestions)
    THEN Returned(<<"contact the department in charge">>)
    ELSE Returned(SliceTo(all_suggestions(suggestion_lists.items),
                          max_suggestions.n))

\* Variant: no except around the body.
consolidate_suggestions_no_except(suggestion_lists, max_suggestions) ==
    IF consolidate_error(suggestion_lists, max_suggestions)
    THEN Raised
    ELSE Returned(SliceTo(unique_suggestions(
                              all_suggestions(suggestion_lists.items), {}),
                          max_suggestions.n))

\* consolidate_suggestions (SuggestionEngine.py:261-288).
consolidate_suggestions(suggestion_lists, max_suggestions) ==
    IF consolidate_error(suggestion_lists, max_suggestions)
    THEN Returned(<<"contact the department in charge">>)
    ELSE Returned(SliceTo(unique_suggestions(
                              all_suggestions(suggestion_lists.items), {}),
                          max_suggestions.n))

\* date_str of a schedule entry: '' (or None), a text without a date that
\* parses, a value that is no text, or a date whose calendar day is days
\* days after today's (before, when negative).
NoDate == [kind |-> "empty", days |-> 0]

UnparseableDate == [kind |-> "unparseable", days |-> 0]

NotADate == [kind |-> "not_text", days |-> 0]

DateIn(days) == [kind |-> "date", days |-> days]

\* Calendar-day distances on both sides of every threshold of
\* _generate_deadline_suggestions.
DaysOut == {-1, 0, 1, 2, 3, 4, 5, 7, 8, 9, 14, 15, 16}

DateInputs ==
    {NoDate, UnparseableDate, NotADate} \cup {DateIn(d) : d \in DaysOut}

\* datetime.now(), as the hour of the day; 0 is midnight sharp.
hours_per_day == 24

NowInputs == {0, 9, 23}

\* (deadline - now).days: deadline is midnight of the deadline's day, now has
\* the time of day, and timedelta.days is the floor of the difference in days
\* (SuggestionEngine.py:237-238).
days_left(date_str, now) ==
    (hours_per_day * date_str.days - now) \div hours_per_day

\* _generate_deadline_suggestions (SuggestionEngine.py:206-259), called when
\* datetime.now() is now.
_generate_deadline_suggestions(date_str, now) ==
    CASE date_str.kind = "empty" -> <<"check the deadline separately">>
      [] date_str.kind = "not_text" -> <<"mark the deadline on your calendar">>
      [] date_str.kind = "unparseable" -> <<"check the format of the deadline">>
      [] OTHER ->
           LET left == days_left(date_str, now) IN
           IF left < 0 THEN <<"the deadline has passed">>
           ELSE IF left = 0 THEN <<"the deadline is today">>
           ELSE IF left <= 3
           THEN <<"due in " \o ToString(left) \o " days, hurry">>
           ELSE IF left <= 7
           THEN <<"due within a week, in " \o ToString(left) \o " days">>
           ELSE IF left <= 14 THEN <<"due within two weeks">>
           ELSE <<ToString(left) \o " days to the deadline">>

\* parsed_data['schedule']: a list of entries {description, date}, or a text
\* where the list should be.
ScheduleList(items) == [type |-> "list", items |-> items]

ScheduleText == [type |-> "str", items |-> <<>>]

ScheduleEntries == [description : {{}, {"deadline"}}, date : DateInputs]

ScheduleInputs ==
    {ScheduleList(items) : items \in SeqsUpTo(ScheduleEntries, MaxSchedules)}
        \cup {ScheduleText}

\* The suggestions of the loop over the schedule entries.
RECURSIVE schedule_suggestions(_, _)
schedule_suggestions(schedules, now) ==
    IF schedules = <<>>
    THEN <<>>
    ELSE (IF "deadline" \in Head(schedules).description
          THEN _generate_deadline_suggestions(Head(schedules).date, now)
          ELSE <<>>)
             \o schedule_suggestions(Tail(schedules), now)

\* One suggestion for every keyword of ks the text holds, in the order ks.
RECURSIVE keyword_suggestions(_, _)
keyword_suggestions(text, ks) ==
    IF ks = <<>>
    THEN <<>>
    ELSE (IF Head(ks)[1] \in text THEN <<Head(ks)[2]>> ELSE <<>>)
             \o keyword_suggestions(text, Tail(ks))

\* A value that is no dict (None): .get raises AttributeError.
NotADict == [not_a_dict |-> TRUE]

IsDict(d) == "not_a_dict" \notin DOMAIN d

\* generate_parsing_suggestions (SuggestionEngine.py:23-79).  An exception
\* leaves the suggestions made so far and appends the fallback.
generate_parsing_suggestions(parsed_data, now) ==
    IF ~IsDict(parsed_data)
    THEN <<"check the details yourself">>
    ELSE
    LET title == Get(parsed_data, "title", {})
        schedules == Get(parsed_data, "schedule", ScheduleList(<<>>))
        application_method == Get(parsed_data, "application_method", {})
        target == Get(parsed_data, "target", {})
        important_notes == Get(parsed_data, "important_notes", {})
        of_title ==
            IF "scholarship" \in title
            THEN <<"scholarship notice, check the requirements">>
            ELSE IF "employment" \in title
            THEN <<"employment notice, check eligibility and deadline">>
            ELSE IF "exchange" \in title
            THEN <<"exchange notice, check the language score">>
            ELSE <<>>
    IN  IF schedules.type = "str"
        THEN of_title \o <<"check the details yourself">>
        ELSE of_title
             \o (IF schedules.items # <<>>
                 THEN schedule_suggestions(schedules.items, now)
                 ELSE <<"no schedule, ask the department for the deadline">>)
             \o keyword_suggestions(application_method,
                    << <<"online", "online application, check your browser">>,
                       <<"visit", "submission in person, check office hours">>,
                       <<"email", "submission by email, check attachments">> >>)
             \o keyword_suggestions(target,
                    << <<"year", "restricted by year">>,
                       <<"department", "restricted by department">> >>)
             \o keyword_suggestions(important_notes,
                    << <<"quota", "limited places, apply early">>,
                       <<"documents", "documents required">>,
                       <<"interview", "there may be an interview">> >>)

ParsedDataInputs ==
    {NotADict, EmptyDict}
        \cup [title              : {{}, {"scholarship"}, {"employment"},
                                    {"exchange"}},
              schedule           : ScheduleInputs,
              application_method : {{}, {"online"}, {"online", "visit", "email"}},
              target             : {{}, {"year", "department"}},
              important_notes    : {{}, {"quota", "documents", "interview"}}]

\* The suggestions of the loop over missing_fields.
RECURSIVE missing_field_suggestions(_)
missing_field_suggestions(missing_fields) ==
    IF missing_fields = <<>>
    THEN <<>>
    ELSE (CASE Head(missing_fields) = "summary" -> <<"check the summary">>
            [] Head(missing_fields) = "schedule" -> <<"check the schedule">>
            [] Head(missing_fields) = "target" -> <<"check the target">>
            [] OTHER -> <<>>)
             \o missing_field_suggestions(Tail(missing_fields))

\* The suggestions of the loop over warnings.
RECURSIVE warning_suggestions(_)
warning_suggestions(warnings) ==
    IF warnings = <<>>
    THEN <<>>
    ELSE (IF "schedule" \in Head(warnings)
          THEN <<"check the schedule on the home page">>
          ELSE IF "target" \in Head(warnings)
          THEN <<"ask the department about eligibility">>
          ELSE <<>>)
             \o warning_suggestions(Tail(warnings))

\* generate_quality_suggestions (SuggestionEngine.py:127-156).
generate_quality_suggestions(data_quality) ==
    IF ~IsDict(data_quality)
    THEN <<"check the original text">>
    ELSE (IF ~Get(data_quality, "is_complete", TRUE)
          THEN <<"some information is missing">>
                   \o missing_field_suggestions(
                          Get(data_quality, "missing_fields", <<>>))
          ELSE <<>>)
             \o warning_suggestions(Get(data_quality, "warnings", <<>>))

DataQualityInputs ==
    {NotADict, EmptyDict}
        \cup [is_complete    : BOOLEAN,
              missing_fields : {<<>>, <<"summary">>, <<"schedule", "target">>,
                                <<"other">>},
              warnings       : {<<>>, <<{"schedule"}>>, <<{"target"}>>, <<{}>>,
                                <<{"schedule", "target"}, {"target"}>>}]

\* A category that is no text (None): .lower() raises AttributeError.
NoCategory == {"not_text"}

\* generate_general_suggestions (SuggestionEngine.py:158-204).
generate_general_suggestions(category) ==
    IF category = NoCategory
    THEN <<"contact the department in charge directly">>
    ELSE IF "scholarship" \in category
    THEN <<"look at other scholarships", "prepare the documents",
           "apply well before the deadline">>
    ELSE IF "employment" \in category
    THEN <<"prepare your resume", "look into the company",
           "list your certificates">>
    ELSE IF "education" \in category
    THEN <<"look for study material", "check the timetable",
           "check what to bring">>
    ELSE IF "event" \in category
    THEN <<"check how to register", "check the venue", "check the dress code">>
    ELSE <<"check the notices regularly", "ask the person in charge",
           "bookmark the site">>

CategoryInputs ==
    {NoCategory, {}, {"scholarship"}, {"employment"}, {"education"}, {"event"},
     {"scholarship", "event"}}

\* error_type and error_message: every set of the keywords the classifier
\* looks for ('parsing' is what _Summary passes as error_type), and a value
\* that is no text.
ErrorInputs ==
    [error_type    : SUBSET {"api", "network", "json", "validation", "parsing"}
                         \cup {NoText},
     error_message : SUBSET {"key", "connection", "parsing"} \cup {NoText}]

\* One call of an entry point of SuggestionEngine, on any input.
ConsolidateSuggestions ==
    /\ suggest_call = NoCall
    /\ \E suggestion_lists \in SuggestionListsInputs,
          max_suggestions \in MaxSuggestionsInputs :
          /\ suggest_call' = [entry            |-> "consolidate",
                              suggestion_lists |-> suggestion_lists,
                              max_suggestions  |-> max_suggestions]
          /\ suggestions' = consolidate_suggestions(suggestion_lists,
                                                    max_suggestions)
    /\ UNCHANGED <<runVars, graphVars, unitVars, ocrVars>>

GenerateParsingSuggestions ==
    /\ suggest_call = NoCall
    /\ \E parsed_data \in ParsedDataInputs, now \in NowInputs :
          /\ suggest_call' = [entry       |-> "parsing",
                              parsed_data |-> parsed_data,
                              now         |-> now]
          /\ suggestions' = Returned(generate_parsing_suggestions(parsed_data,
                                                                  now))
    /\ UNCHANGED <<runVars, graphVars, unitVars, ocrVars>>

GenerateDeadlineSuggestions ==
    /\ suggest_call = NoCall
    /\ \E date_str \in DateInputs, now \in NowInputs :
          /\ suggest_call' = [entry    |-> "deadline",
                              date_str |-> date_str,
                              now      |-> now]
          /\ suggestions' = Returned(_generate_deadline_suggestions(date_str,
                                                                    now))
    /\ UNCHANGED <<runVars, graphVars, unitVars, ocrVars>>

GenerateErrorSuggestions ==
    /\ suggest_call = NoCall
    /\ \E e \in ErrorInputs :
          /\ suggest_call' = [entry |-> "error", error |-> e]
          /\ suggestions' = Returned(generate_error_suggestions(
                                         e.error_type, e.error_message))
    /\ UNCHANGED <<runVars, graphVars, unitVars, ocrVars>>

GenerateQualitySuggestions ==
    /\ suggest_call = NoCall
    /\ \E data_quality \in DataQualityInputs :
          /\ suggest_call' = [entry |-> "quality", data_quality |-> data_quality]
          /\ suggestions' = Returned(generate_quality_suggestions(data_quality))
    /\ UNCHANGED <<runVars, graphVars, unitVars, ocrVars>>

GenerateGeneralSuggestions ==
    /\ suggest_call = NoCall
    /\ \E category \in CategoryInputs :
          /\ suggest_call' = [entry |-> "general", category |-> category]
          /\ suggestions' = Returned(generate_general_suggestions(category))
    /\ UNCHANGED <<runVars, graphVars, unitVars, ocrVars>>

-----------------------------------------------------------------------------
(* GeminiSummarizer.summarize, LanggraphPipeline._Summary and               *)
(* LanggraphPipeline.run                                                    *)

\* What a pipeline run meets:
\*   "json"          the model answers with a filled JSON object
\*   "json_retitled" the same, with a title that is not the notice's (the
\*                   prompt asks the model to keep the title, nothing checks)
\*   "empty_object"  the model answers "{}"
\*   "failure"       summarize returns its failure text (no model, no JSON
\*                   in the answer, an exception of the API)
\*   "node_raises"   an exception inside the try of _Summary
\*   "graph_raises"  an exception of the graph outside that try (run's except)
\*   "agent_raises"  LanggraphPipeline() or run itself raises
PipelineOutcomes ==
    {"json", "json_retitled", "empty_object", "failure", "node_raises",
     "graph_raises",
     "agent_raises"}

\* The failure text of summarize: the failure prefix followed by the error;
\* value is the set of classifier keywords the text contains.
FailureText == [kind |-> "failure", value |-> {}]

\* summary_result.startswith(<the failure prefix>)
StartsWithFailure(text) == text.kind = "failure"

\* The text summarize returns.
summarize(title, o) ==
    CASE o = "json"          -> JsonText(SummaryDict(title))
      [] o = "json_retitled" -> JsonText(SummaryDict("a title of the model's"))
      [] o = "empty_object" -> JsonText(EmptyDict)
      [] OTHER              -> FailureText

\* The 'json_summary' the Summary node returns.
_Summary(title, o) ==
    IF o = "node_raises"
    THEN [status      |-> "error",
          error       |-> "unexpected error in the Summary node",
          suggestions |-> generate_error_suggestions({}, {})]
    ELSE
    LET summary_result == summarize(title, o)
        parsed == json_loads(summary_result)
    IN  IF ~StartsWithFailure(summary_result)
        THEN IF parsed.ok /\ DOMAIN parsed.value # {}
             THEN [status      |-> "success",
                   data        |-> summary_result,
                   parsed_data |-> parsed.value]
             ELSE [status      |-> "error",
                   error       |-> "parsing failed",
                   data        |-> summary_result,
                   suggestions |-> generate_error_suggestions({"parsing"}, {})]
        ELSE [status      |-> "error",
              error       |-> "summary failed",
              suggestions |-> generate_error_suggestions({}, summary_result.value)]

\* LanggraphPipeline.run: 'success' with the node's json_summary whenever
\* invoke returns, 'error' with an empty json_summary when it raises.
\* status "raised" stands for no return value: the call raised.
run(title, o) ==
    CASE o = "agent_raises" -> [status |-> "raised", json_summary |-> EmptyDict]
      [] o = "graph_raises" -> [status |-> "error", json_summary |-> EmptyDict]
      [] OTHER -> [status |-> "success", json_summary |-> _Summary(title, o)]

-----------------------------------------------------------------------------
(* LanggraphPipeline._Summary on its own (ai/langgraph_pipeline.py:96-182): *)
(* the node on every text of the summarizer, with the suggestions it        *)
(* attaches.                                                                *)

\* max_suggestions of consolidate_suggestions when the caller gives none.
max_suggestions_default == 10

\* The failure texts of summarize, by the classifier keywords in them.
FailureTexts ==
    {[kind |-> "failure", value |-> ks] :
        ks \in {{}, {"key"}, {"connection"}, {"parsing"}}}

\* A text that is no JSON and no failure text.
PlainText == [kind |-> "text", value |-> {}]

\* The objects the model writes: the empty one, one with a title alone, one
\* with every field but nothing the suggestion engine looks for, a filled
\* one.
NodeSummaries ==
    {EmptyDict,
     [title |-> {"scholarship"}],
     [title              |-> {},
      schedule           |-> ScheduleList(<<[description |-> {},
                                             date        |-> DateIn(2)]>>),
      application_method |-> {},
      target             |-> {},
      important_notes    |-> {}],
     [title              |-> {"scholarship"},
      schedule           |-> ScheduleList(<<[description |-> {"deadline"},
                                             date        |-> DateIn(2)]>>),
      application_method |-> {"online"},
      target             |-> {"year"},
      important_notes    |-> {"documents"}]}

\* summary_result when summarize returned the text of an object.
JsonTexts == {JsonText(d) : d \in NodeSummaries}

\* An exception inside the try of _Summary (title[:30] of a missing title,
\* GeminiSummarizer()), by the classifier keywords of str(e); or none.
NoException == [raised |-> FALSE, message |-> {}]

NodeExceptions ==
    {NoException} \cup {[raised |-> TRUE, message |-> ks] : ks \in {{}, {"key"}}}

\* final_suggestions (langgraph_pipeline.py:124-137): the lists of the engine
\* that are not empty, consolidated.
final_suggestions(parsed_data, category, now) ==
    LET engine_suggestions == generate_parsing_suggestions(parsed_data, now)
        general_suggestions == generate_general_suggestions(category)
        suggestion_lists ==
            (IF engine_suggestions # <<>>
             THEN <<ListOf(engine_suggestions)>> ELSE <<>>)
                \o (IF general_suggestions # <<>>
                    THEN <<ListOf(general_suggestions)>> ELSE <<>>)
    IN  consolidate_suggestions(Iterable(suggestion_lists),
                                Int_(max_suggestions_default)).value

\* The 'error' texts of the node: the Korean for 'parsing failed', and the
\* message of the except with str(e) in it; like the failure texts of
\* summarize, by the classifier keywords in them.
ParsingFailed == [kind |-> "parsing failed", value |-> {}]

UnexpectedError(message) == [kind |-> "unexpected", value |-> message]

\* The json_summary _Summary returns.  json.loads gives parsed_data, None
\* after JSONDecodeError; 'if parsed_data' is false for None and for the
\* empty object.  The parsing failure calls generate_error_suggestions(
\* 'parsing', <the Korean for 'parsing failed'>): the keyword "parsing" is in
\* the kind, none is in the message.
SummaryNodeReturn(summary_result, category, now, exception) ==
    IF exception.raised
    THEN [status      |-> "error",
          error       |-> UnexpectedError(exception.message),
          suggestions |-> generate_error_suggestions({}, exception.message)]
    ELSE IF ~StartsWithFailure(summary_result)
    THEN LET parsed == json_loads(summary_result)
         IN  IF parsed.ok /\ DOMAIN parsed.value # {}
             THEN [status      |-> "success",
                   data        |-> summary_result,
                   parsed_data |-> parsed.value,
                   suggestions |-> final_suggestions(parsed.value, category,
                                                     now)]
             ELSE [status      |-> "error",
                   error       |-> ParsingFailed,
                   data        |-> summary_result,
                   suggestions |-> generate_error_suggestions({"parsing"}, {})]
    ELSE [status      |-> "error",
          error       |-> summary_result,
          suggestions |-> generate_error_suggestions({}, summary_result.value)]

\* The Summary node runs on a state in which summarize returns
\* summary_result.
SummaryNodeOn(summary_result) ==
    /\ unit_call = [fn |-> "none"]
    /\ \E category \in CategoryInputs, now \in NowInputs,
          exception \in NodeExceptions :
          /\ unit_call' = [fn             |-> "_Summary",
                           summary_result |-> summary_result,
                           category       |-> category,
                           now            |-> now,
                           exception      |-> exception]
          /\ unit_result' = Returned(SummaryNodeReturn(summary_result,
                                         category, now, exception))
    /\ UNCHANGED <<runVars, graphVars, suggestVars, ocrVars>>

\* summarize returned a text that is no JSON: a failure text or another.
SummaryNodeOnText ==
    \E summary_result \in FailureTexts \cup {PlainText} :
        SummaryNodeOn(summary_result)

\* summarize returned the text of an object.
SummaryNodeOnJson ==
    \E summary_result \in JsonTexts : SummaryNodeOn(summary_result)

-----------------------------------------------------------------------------
(* process_ai_summary (main.py:118-155)                                     *)

\* The placeholder of main.py:138-144 ('AI processing failed').
Placeholder(title) ==
    [title              |-> title,
     schedule           |-> "AI processing failed",
     target             |-> "Unknown",
     application_method |-> "Unknown",
     important_notes    |-> "no AI summary could be generated"]

\* The placeholder of main.py:147-153 ('AI processing error').
ErrorPlaceholder(title) ==
    [title              |-> title,
     schedule           |-> "AI processing error",
     target             |-> "Unknown",
     application_method |-> "Unknown",
     important_notes    |-> "processing error"]

\* content_data['ai_summary'] after process_ai_summary, given what
\* llm_agent.run returned.
process_ai_summary(title, result) ==
    CASE result.status = "success" -> result.json_summary
      [] result.status = "raised"  -> ErrorPlaceholder(title)
      [] OTHER                     -> Placeholder(title)

NoResult == [status |-> "none", json_summary |-> EmptyDict]

NoSummary == [none |-> TRUE]

\* A worker runs item i's process_ai_summary task (main.py:214);
\* as_completed hands the completed task to main, which appends its result
\* to final_results (main.py:219-222).
ProcessAiSummary(i) ==
    /\ phase = "process"
    /\ proc[i] = "queued"
    /\ \E o \in PipelineOutcomes :
          /\ run_result' = [run_result EXCEPT ![i] = run(TitleOf(i), o)]
          /\ ai_summary' = [ai_summary EXCEPT
                               ![i] = process_ai_summary(TitleOf(i),
                                                         run_result'[i])]
          /\ outcome' = [outcome EXCEPT ![i] = o]
    /\ proc' = [proc EXCEPT ![i] = "done"]
    /\ final_results' = Append(final_results, i)
    /\ UNCHANGED <<all_notifications, phase, fetch, calls, results, send, mail,
                   email_log,
                   transport_calls>>
    /\ UNCHANGED <<graphVars, suggestVars, unitVars, ocrVars>>

\* The with-block of main.py:211 is left when every AI task has completed.
SummaryPhaseOver == \A i \in Items : proc[i] \in {"none", "done"}

\* Variant: only the items whose summary succeeded get a send_email task.
future_to_email_success_only(i) ==
    i \in Range(final_results) /\ run_result[i].status = "success"

\* Item i has a task in future_to_email (main.py:235-238): one is submitted
\* for every element of final_results.
future_to_email(i) == i \in Range(final_results)

\* main.py:226-238: one send_email task per element of final_results.
SummaryPhaseEnd ==
    /\ phase = "process"
    /\ SummaryPhaseOver
    /\ phase' = "send"
    /\ send' = [i \in Items |->
                  IF future_to_email(i) THEN "queued" ELSE "none"]
    /\ UNCHANGED <<all_notifications, fetch, calls, results, proc, ai_summary,
                   outcome, run_result, final_results, mail, email_log,
                   transport_calls>>
    /\ UNCHANGED <<graphVars, suggestVars, unitVars, ocrVars>>

-----------------------------------------------------------------------------
(* EmailSender._send_email and EmailSender.send (tools/email_tool.py),      *)
(* send_email (main.py:157-166)                                             *)

\* Addresses of the users that can subscribe.
Addresses == <<"u1@ssu.ac.kr", "u2@ssu.ac.kr">>

\* get_all_subscribers_email_initial: notification_id -> addresses of the
\* active subscribers; an id nobody subscribes to is no key of the dict.
ReceiverMaps ==
    {[n \in ids |-> Addresses] : ids \in SUBSET NotificationIds}

\* The fields _send_email renders into the message (email_tool.py:27-42).
RenderedFields(data_ai_summary) ==
    LET raw == Get(data_ai_summary, "data", EmptyDict)
        ai == IF DOMAIN raw = {"kind", "value"}
              THEN (IF json_loads(raw).ok THEN json_loads(raw).value ELSE EmptyDict)
              ELSE raw
    IN  [title              |-> Get(ai, "title", ""),
         schedule           |-> Get(ai, "schedule", ""),
         target             |-> Get(ai, "target", ""),
         application_method |-> Get(ai, "application_method", ""),
         important_notes    |-> Get(ai, "summary", "")]

\* What the delivery of an item did, before any send_email call:
\*   lookup     what receiver holds for the notification id: "absent",
\*              "empty", "found"; "not reached" when send did not get there
\*   error      the exception inside _send_email: "none", "render", "transport"
\*   raised     whether _send_email raised it to its caller
\*   delivered  the SMTP server accepted the message
\*   to, body   the recipients and the fields of the message built
NoMail ==
    [lookup |-> "not reached", error |-> "none", raised |-> FALSE,
     delivered |-> FALSE, to |-> <<>>, body |-> EmptyDict]

\* What happens to the message: it is sent, server.sendmail raises, or an
\* exception is raised before that, while the message is rendered.
TransportOutcomes == {"accepts", "refuses", "render_fails"}

\* Variant: one server.sendmail call per recipient.
sendmail_calls_each(receiver_emails) ==
    [k \in 1 .. Len(receiver_emails) |-> <<receiver_emails[k]>>]

\* The server.sendmail calls of one _send_email call: one call, with the
\* whole recipient list (email_tool.py:182-185).
sendmail_calls(receiver_emails) == <<receiver_emails>>

\* Variant: no except around the body of _send_email.
_send_email_raises(receiver_emails, data_ai_summary, transport) ==
    IF transport = "render_fails"
    THEN [mail  |-> [NoMail EXCEPT !.lookup = "found", !.error = "render",
                                   !.raised = TRUE],
          calls |-> <<>>]
    ELSE [mail  |-> [lookup    |-> "found",
                     error     |-> IF transport = "refuses"
                                   THEN "transport" ELSE "none",
                     raised    |-> (transport = "refuses"),
                     delivered |-> (transport = "accepts"),
                     to        |-> receiver_emails,
                     body      |-> RenderedFields(data_ai_summary)],
          calls |-> sendmail_calls(receiver_emails)]

\* _send_email: the message is rendered and handed to the transport once,
\* addressed to the whole list; any exception is caught and logged.
_send_email(receiver_emails, data_ai_summary, transport) ==
    IF transport = "render_fails"
    THEN [mail  |-> [NoMail EXCEPT !.lookup = "found", !.error = "render"],
          calls |-> <<>>]
    ELSE [mail  |-> [lookup    |-> "found",
                     error     |-> IF transport = "refuses"
                                   THEN "transport" ELSE "none",
                     raised    |-> FALSE,
                     delivered |-> (transport = "accepts"),
                     to        |-> receiver_emails,
                     body      |-> RenderedFields(data_ai_summary)],
          calls |-> sendmail_calls(receiver_emails)]

\* Variant: send indexes receiver without the two guards; the KeyError of an
\* absent id is caught by send_email, an empty list goes to _send_email.
send_email_unguarded(i, db, receiver, transport) ==
    LET notification_id == all_notifications[i].notification_id IN
    IF db = "down"
    THEN [result |-> "Email sending failed", mail |-> NoMail, calls |-> <<>>]
    ELSE IF notification_id \notin DOMAIN receiver
    THEN [result |-> "Email sending failed",
          mail   |-> [NoMail EXCEPT !.lookup = "absent"], calls |-> <<>>]
    ELSE LET sent == _send_email(receiver[notification_id], ai_summary[i],
                                 transport)
         IN  [result |-> "Email sent",
              mail   |-> [sent.mail EXCEPT
                             !.lookup = IF receiver[notification_id] = <<>>
                                        THEN "empty" ELSE "found"],
              calls  |-> sent.calls]

\* send_email / EmailSender.send for item i.  db: whether EmailDB() connects;
\* receiver: the subscriber dict read; transport: what happens to the message.
\* Returns the outcome text (by kind), what the delivery did and the
\* server.sendmail calls made.
send_email(i, db, receiver, transport) ==
    LET notification_id == all_notifications[i].notification_id IN
    IF db = "down"
    THEN [result |-> "Email sending failed", mail |-> NoMail, calls |-> <<>>]
    ELSE IF notification_id \notin DOMAIN receiver
    THEN [result |-> "No subscribers",
          mail   |-> [NoMail EXCEPT !.lookup = "absent"], calls |-> <<>>]
    ELSE IF receiver[notification_id] = <<>>
    THEN [result |-> "Empty subscriber list",
          mail   |-> [NoMail EXCEPT !.lookup = "empty"], calls |-> <<>>]
    ELSE LET sent == _send_email(receiver[notification_id], ai_summary[i],
                                 transport)
         IN  [result |-> IF sent.mail.raised
                         THEN "Email sending failed" ELSE "Email sent",
              mail   |-> sent.mail,
              calls  |-> sent.calls]

\* Everything a send_email call for item i can return when receiver is one
\* of maps.
SendEmailReturns(i, maps) ==
    {send_email(i, db, receiver, transport) :
        db \in {"up", "down"}, receiver \in maps,
        transport \in TransportOutcomes}

\* A worker runs item i's send_email task (main.py:236).  Nothing on this
\* path calls EmailDB.log_email_send, so email_log is left as it is.
SendEmailWith(i, maps) ==
    /\ phase = "send"
    /\ send[i] = "queued"
    /\ \E r \in SendEmailReturns(i, maps) :
          /\ send' = [send EXCEPT ![i] = r.result]
          /\ mail' = [mail EXCEPT ![i] = r.mail]
          /\ transport_calls' = [transport_calls EXCEPT ![i] = r.calls]
    /\ UNCHANGED <<all_notifications, phase, fetch, calls, results, proc,
                   ai_summary, outcome, run_result, final_results, email_log>>
    /\ UNCHANGED <<graphVars, suggestVars, unitVars, ocrVars>>

\* The task reads the subscribers through get_all_subscribers_email_initial.
SendEmail(i) == SendEmailWith(i, ReceiverMaps)

\* Any subscriber dict: a notification id is no key, or is mapped to an
\* empty list, or to one address or more.  send is studied for all of them;
\* get_all_subscribers_email_initial itself builds no empty list.
AnyReceiverMaps ==
    UNION {[ids -> {SubSeq(Addresses, 1, n) : n \in 0 .. Len(Addresses)}] :
              ids \in SUBSET NotificationIds}

\* EmailSender.send run for item i on any subscriber dict.
SendEmailAny(i) == SendEmailWith(i, AnyReceiverMaps)

SendOutcomes ==
    {"Email sending failed", "No subscribers", "Empty subscriber list",
     "Email sent"}

\* The with-block of main.py:233 has been left: every mail task has completed.
RunOver ==
    /\ phase = "send"
    /\ \A i \in Items : send[i] \in {"none"} \cup SendOutcomes

-----------------------------------------------------------------------------
(* The graph of LanggraphPipeline (_make_graph, _OCR_branching_condition,   *)
(* _OCR) and perform_ocr_on_url (tools/ocr_tool.py): one traversal, node by *)
(* node, as llm_agent.invoke runs it inside run.                            *)

\* Image references {filename, url} of an item; reference k is named k.
Images(n) == [k \in 1 .. n |-> [filename |-> k, url |-> k]]

\* 'image' is None.
NoImage == [present |-> FALSE, refs |-> <<>>]

\* The 'image' values of an item: None, or a list of 0 .. MaxImages references.
ImageInputs ==
    {NoImage} \cup {[present |-> TRUE, refs |-> Images(n)] : n \in 0 .. MaxImages}

\* Variant: the node is taken whenever a list is given, also an empty one.
_OCR_branching_condition_not_none(images) == images.present

\* bool(images and len(images) > 0)
_OCR_branching_condition(images) ==
    images.present /\ Len(images.refs) > 0

\* Variant: an edge from Summary_Node back to OCR_Node instead of the finish
\* point.
_make_graph_loop(at, branch) ==
    CASE at = "START"        -> (IF branch THEN "OCR_Node" ELSE "Summary_Node")
      [] at = "OCR_Node"     -> "Summary_Node"
      [] at = "Summary_Node" -> "OCR_Node"

\* The edges of the compiled graph: the node that follows node 'at'; branch is
\* the value of the condition on the conditional edge out of START.
_make_graph(at, branch) ==
    CASE at = "START"        -> (IF branch THEN "OCR_Node" ELSE "Summary_Node")
      [] at = "OCR_Node"     -> "Summary_Node"
      [] at = "Summary_Node" -> "END"

\* What one call of the OCR service meets: text is recognised, the service
\* has no result, or anything in the try fails (download, decoding, OCR).
OcrOutcomes == {"text", "no_result", "fails"}

\* Variant: no except around the body, a failure is raised to the caller.
perform_ocr_on_url_raises(o) ==
    CASE o = "text"      -> [raised |-> FALSE, text |-> "text"]
      [] o = "no_result" -> [raised |-> FALSE, text |-> ""]
      [] o = "fails"     -> [raised |-> TRUE, text |-> ""]

\* perform_ocr_on_url: the recognised text, "" when there is none or when
\* anything fails; 'raised' tells whether the call raised.
perform_ocr_on_url(o) ==
    CASE o = "text"      -> [raised |-> FALSE, text |-> "text"]
      [] o = "no_result" -> [raised |-> FALSE, text |-> ""]
      [] o = "fails"     -> [raised |-> FALSE, text |-> ""]

\* What the Summary node can meet inside a traversal.
GraphOutcomes == PipelineOutcomes \ {"agent_raises"}

NoVisits == [OCR_Node |-> 0, Summary_Node |-> 0]

\* The visit counts once node n has been entered.
Enter(n) ==
    IF n \in DOMAIN visits THEN [visits EXCEPT ![n] = @ + 1] ELSE visits

\* The traversal is over: the graph finished with a successful json_summary
\* (Done), or with an error json_summary or an exception (Error).
Terminal == node \in {"Done", "Error"}

\* run's except (langgraph_pipeline.py:82-87): an exception of a node.
RunExcept == run(TitleOf(1), "graph_raises")

\* The conditional edge out of START.
GraphBranch ==
    /\ node = "START"
    /\ node' = _make_graph("START", _OCR_branching_condition(image))
    /\ visits' = Enter(node')
    /\ UNCHANGED <<image, ocr_text, graph_result>>
    /\ UNCHANGED <<runVars, suggestVars, unitVars, ocrVars>>

\* One iteration of the loop of _OCR: perform_ocr_on_url for the next image.
\* _OCR has no try: an exception of the call would end the traversal in
\* run's except, and so does iterating over None.
OcrImage ==
    /\ node = "OCR_Node"
    /\ \/ /\ ~image.present
          /\ node' = "Error"
          /\ graph_result' = RunExcept
          /\ UNCHANGED ocr_text
       \/ /\ image.present
          /\ Len(ocr_text) < Len(image.refs)
          /\ \E o \in OcrOutcomes :
                LET i == image.refs[Len(ocr_text) + 1]
                    r == perform_ocr_on_url(o)
                IN  IF r.raised
                    THEN /\ node' = "Error"
                         /\ graph_result' = RunExcept
                         /\ UNCHANGED ocr_text
                    ELSE /\ ocr_text' = Append(ocr_text,
                                               [filename |-> i.filename,
                                                outcome  |-> o,
                                                ocr_text |-> r.text])
                         /\ UNCHANGED <<node, graph_result>>
    /\ UNCHANGED <<image, visits>>
    /\ UNCHANGED <<runVars, suggestVars, unitVars, ocrVars>>

\* _OCR returns {'ocr_text': ...}; the edge OCR_Node -> Summary_Node.
OcrReturn ==
    /\ node = "OCR_Node"
    /\ image.present
    /\ Len(ocr_text) = Len(image.refs)
    /\ node' = _make_graph("OCR_Node", FALSE)
    /\ visits' = Enter(node')
    /\ UNCHANGED <<image, ocr_text, graph_result>>
    /\ UNCHANGED <<runVars, suggestVars, unitVars, ocrVars>>

\* The Summary node runs and the graph goes on from it; at the finish point
\* run returns the node's json_summary.
SummaryNode ==
    /\ node = "Summary_Node"
    /\ \E o \in GraphOutcomes :
          LET r == run(TitleOf(1), o)
              next == _make_graph("Summary_Node", FALSE)
          IN  IF o = "graph_raises"
              THEN /\ node' = "Error"
                   /\ graph_result' = r
                   /\ UNCHANGED visits
              ELSE IF next = "END"
              THEN /\ node' = (IF r.json_summary.status = "success"
                               THEN "Done" ELSE "Error")
                   /\ graph_result' = r
                   /\ UNCHANGED visits
              ELSE /\ node' = next
                   /\ visits' = Enter(next)
                   /\ UNCHANGED graph_result
    /\ UNCHANGED <<image, ocr_text>>
    /\ UNCHANGED <<runVars, suggestVars, unitVars, ocrVars>>

\* No traversal is going on.
GraphIdle ==
    /\ image = NoImage
    /\ node = "idle"
    /\ visits = NoVisits
    /\ ocr_text = <<>>
    /\ graph_result = NoResult

\* run is called for an item; invoke is about to start the graph.
GraphStart ==
    /\ image \in ImageInputs
    /\ node = "START"
    /\ visits = NoVisits
    /\ ocr_text = <<>>
    /\ graph_result = NoResult

-----------------------------------------------------------------------------
(* tools/ocr_tool.py:26-49: the OCR engine handle of the process.           *)
(*                                                                          *)
(*   _ocr_instance = None                                                   *)
(*   def _get_ocr_instance():                                               *)
(*       global _ocr_instance                                               *)
(*       if _ocr_instance is None:                        (line 34)         *)
(*           if not PADDLEOCR_AVAILABLE: raise ImportError                  *)
(*           try:    _ocr_instance = PaddleOCR(...)       (line 40)         *)
(*           except Exception: raise                                        *)
(*       return _ocr_instance                             (line 49)         *)
(*                                                                          *)
(* The callers are the workers of the AI pool of main (main.py:211-216):    *)
(* process_ai_summary -> LanggraphPipeline.run -> _OCR ->                   *)
(* perform_ocr_on_url (ocr_tool.py:86), once per image.  No lock guards     *)
(* the function, and LanggraphPipeline() (main.py:175) does not call it,    *)
(* so the first calls are made by the workers.  A thread can be preempted   *)
(* between the test of line 34, the construction of line 40 and the read    *)
(* of line 49; each of the three is one step of a worker here.  A handle    *)
(* is the number of the construction that made it.                          *)

\* Workers of the AI pool that reach an image, and calls each of them makes.
MaxOcrWorkers == 3
MaxOcrCalls == 2

OcrWorkers == 1 .. MaxOcrWorkers

\* A worker that has not called _get_ocr_instance yet: where it is in the
\* function, the calls it has finished, the handles they returned and how
\* many of them raised.
NewOcrWorker == [pc |-> "idle", calls |-> 0, got |-> {}, raised |-> 0]

\* Lines 34-36: worker w calls _get_ocr_instance; it tests the global and,
\* finding None, raises ImportError or goes on to line 40.
GetOcrTest(w) ==
    /\ ocr_worker # <<>>
    /\ ocr_worker[w].pc = "idle"
    /\ ocr_worker[w].calls < MaxOcrCalls
    /\ ocr_worker' = [ocr_worker EXCEPT ![w] =
          IF ocr_instance # NoInstance THEN [@ EXCEPT !.pc = "return"]
          ELSE IF ~PADDLEOCR_AVAILABLE
               THEN [@ EXCEPT !.calls = @ + 1, !.raised = @ + 1]
          ELSE [@ EXCEPT !.pc = "construct"]]
    /\ UNCHANGED <<PADDLEOCR_AVAILABLE, ocr_instance, ocr_built>>
    /\ UNCHANGED <<runVars, graphVars, suggestVars, unitVars>>

\* Lines 38-47: PaddleOCR(...) returns a new object, which is stored in the
\* global, or raises, and the exception is raised again.
GetOcrConstruct(w) ==
    /\ ocr_worker # <<>>
    /\ ocr_worker[w].pc = "construct"
    /\ \/ /\ ocr_built' = ocr_built + 1
          /\ ocr_instance' = ocr_built + 1
          /\ ocr_worker' = [ocr_worker EXCEPT ![w].pc = "return"]
       \/ /\ ocr_worker' = [ocr_worker EXCEPT ![w] =
                [@ EXCEPT !.pc = "idle", !.calls = @ + 1, !.raised = @ + 1]]
          /\ UNCHANGED <<ocr_instance, ocr_built>>
    /\ UNCHANGED PADDLEOCR_AVAILABLE
    /\ UNCHANGED <<runVars, graphVars, suggestVars, unitVars>>

\* Line 49: the call returns what the global holds now.
GetOcrReturn(w) ==
    /\ ocr_worker # <<>>
    /\ ocr_worker[w].pc = "return"
    /\ ocr_worker' = [ocr_worker EXCEPT ![w] =
          [@ EXCEPT !.pc = "idle", !.calls = @ + 1,
                    !.got = @ \cup {ocr_instance}]]
    /\ UNCHANGED <<PADDLEOCR_AVAILABLE, ocr_instance, ocr_built>>
    /\ UNCHANGED <<runVars, graphVars, suggestVars, unitVars>>

-----------------------------------------------------------------------------
(* The run                                                                  *)

InitOf(n) ==
    /\ all_notifications \in Batches(n)
    /\ phase = "fetch"
    /\ fetch = [i \in 1 .. Len(all_notifications) |-> NewTask]
    /\ calls = [i \in 1 .. Len(all_notifications) |-> <<>>]
    /\ results = <<>>
    /\ proc = [i \in 1 .. Len(all_notifications) |-> "none"]
    /\ ai_summary = [i \in 1 .. Len(all_notifications) |-> NoSummary]
    /\ outcome = [i \in 1 .. Len(all_notifications) |-> "none"]
    /\ run_result = [i \in 1 .. Len(all_notifications) |-> NoResult]
    /\ final_results = <<>>
    /\ send = [i \in 1 .. Len(all_notifications) |-> "none"]
    /\ mail = [i \in 1 .. Len(all_notifications) |-> NoMail]
    /\ email_log = <<>>
    /\ transport_calls = [i \in 1 .. Len(all_notifications) |-> <<>>]
    /\ GraphIdle
    /\ SuggestIdle
    /\ UnitIdle
    /\ OcrIdle

Init == InitOf(MaxItems)

Next ==
    \/ \E i \in Items : FetchStart(i)
    \/ \E i \in Items : FetchFinish(i)
    \/ CrawlReturn
    \/ \E i \in Items : ProcessAiSummary(i)
    \/ SummaryPhaseEnd
    \/ \E i \in Items : SendEmail(i)

Spec == Init /\ [][Next]_vars

\* The run when every call made to a collaborator comes back and every
\* worker thread, and the main thread, is scheduled again and again: a step
\* of a thread that stays possible is taken.  The pools have at least as
\* many workers as tasks of the kind that can wait for one another
\* (main.py:83-84), and 20 for the others, which take their tasks from the
\* queue as they get free.
Fairness ==
    /\ \A i \in 1 .. MaxItems : WF_vars(i \in Items /\ FetchStart(i))
    /\ \A i \in 1 .. MaxItems : WF_vars(i \in Items /\ FetchFinish(i))
    /\ WF_vars(CrawlReturn)
    /\ \A i \in 1 .. MaxItems : WF_vars(i \in Items /\ ProcessAiSummary(i))
    /\ WF_vars(SummaryPhaseEnd)
    /\ \A i \in 1 .. MaxItems : WF_vars(i \in Items /\ SendEmail(i))

SpecFair == Spec /\ Fairness

\* crawl_all_content alone, on larger batches.
InitCrawl == InitOf(MaxCrawlItems)

NextCrawl ==
    \/ \E i \in Items : FetchStart(i)
    \/ \E i \in Items : FetchFinish(i)
    \/ CrawlReturn

SpecCrawl == InitCrawl /\ [][NextCrawl]_vars

\* No run of main is going on.
RunIdle ==
    /\ all_notifications = <<>>
    /\ phase = "idle"
    /\ fetch = <<>>
    /\ calls = <<>>
    /\ results = <<>>
    /\ proc = <<>>
    /\ ai_summary = <<>>
    /\ outcome = <<>>
    /\ run_result = <<>>
    /\ final_results = <<>>
    /\ send = <<>>
    /\ mail = <<>>
    /\ email_log = <<>>
    /\ transport_calls = <<>>

-----------------------------------------------------------------------------
(* build_gcal_urls (tools/calendar_tool.py)                                 *)

\* A text is the sequence of its pieces: a word (a run of letters and
\* digits) or one character that is neither.  Python values are a text or
\* None; a key a dict does not hold is no element of its DOMAIN.
Str(s) == [type |-> "str", s |-> s]

None == [type |-> "None"]

Whitespace == {" ", "\n"}

\* v.strip()
RECURSIVE lstrip(_)
lstrip(s) ==
    IF s # <<>> /\ Head(s) \in Whitespace THEN lstrip(Tail(s)) ELSE s

RECURSIVE strip(_)
strip(s) ==
    LET l == lstrip(s) IN
    IF l # <<>> /\ l[Len(l)] \in Whitespace
    THEN strip(SubSeq(l, 1, Len(l) - 1))
    ELSE l

\* The characters urllib.parse.quote escapes unless told they are safe.
PercentCodes ==
    (" " :> "%20") @@ ("/" :> "%2F") @@ ("\n" :> "%0A") @@ ("[" :> "%5B")
        @@ ("]" :> "%5D") @@ (":" :> "%3A")

\* enc (calendar_tool.py:67-70): quote(v, safe="/T:-_." if keep_slash else
\* "-_.~").
enc(v, keep_slash) ==
    [k \in 1 .. Len(v) |->
        IF v[k] \in DOMAIN PercentCodes
               /\ ~(keep_slash /\ v[k] \in {"/", ":"})
        THEN PercentCodes[v[k]] ELSE v[k]]

\* The date texts of schedule entries, by their form:
\*   "ymd"     YYYY<sep>MM<sep>DD with sep "." or "-"
\*   "ymd_hm"  YYYY.MM.DD HH:MM
\*   "words"   a text without a date ('to be announced')
\*   "blank"   white space only,   "empty"  ''
DateText(kind, year, month, day, sep) ==
    [type |-> "str", kind |-> kind, year |-> year, month |-> month,
     day |-> day, sep |-> sep]

Ymd(year, month, day) == DateText("ymd", year, month, day, ".")

\* Valid calendar dates, the last days of months and of a year among them.
CalendarDates ==
    {Ymd(2025, 9, 4), Ymd(2025, 9, 30), Ymd(2025, 12, 31), Ymd(2024, 2, 28),
     Ymd(2024, 2, 29), Ymd(2025, 2, 28), DateText("ymd", 2025, 9, 4, "-")}

GcalDateInputs ==
    CalendarDates
        \cup {None, DateText("ymd_hm", 2025, 9, 4, "."),
              DateText("words", 0, 0, 0, "."), DateText("blank", 0, 0, 0, "."),
              DateText("empty", 0, 0, 0, ".")}

\* A piece of a split date text: an int literal, or not one.
IntPart(n) == [is_int |-> TRUE, n |-> n]

NotIntPart == [is_int |-> FALSE, n |-> 0]

\* date_str.replace(".", "-").split("-") (calendar_tool.py:44): the day of
\* 'YYYY.MM.DD HH:MM' comes out as 'DD HH:MM', a text without separator as
\* one piece.
date_parts(date_str) ==
    CASE date_str.kind = "ymd" ->
           <<IntPart(date_str.year), IntPart(date_str.month),
             IntPart(date_str.day)>>
      [] date_str.kind = "ymd_hm" ->
           <<IntPart(date_str.year), IntPart(date_str.month), NotIntPart>>
      [] OTHER -> <<NotIntPart>>

\* f"{year:04d}{month:02d}{day:02d}": the eight digits, read as a number.
yyyymmdd(year, month, day) == year * 10000 + month * 100 + day

\* end_date (calendar_tool.py:48): the day number plus one.
end_date(year, month, day) == yyyymmdd(year, month, day + 1)

\* Schedule entries {description, date, location}; a key may be missing.
Dict(keys, d) == [k \in keys |-> d[k]]

ScheduleItems ==
    {Dict(keys, [description |-> Str(<<"briefing">>), date |-> date,
                 location |-> Str(<<"hall">>)]) :
        keys \in {{"date"}, {"description", "date"},
                  {"description", "date", "location"}, {"description"}},
        date \in GcalDateInputs}

\* The items with a schedule of up to n entries: the parsed summary {title,
\* summary, schedule}.
GcalItems(n) ==
    {Dict(keys, [title |-> title, summary |-> Str(<<"about">>),
                 schedule |-> schedule]) :
        keys \in {{"title", "schedule"}, {"title", "summary", "schedule"},
                  {"title"}},
        title \in {Str(<<"notice">>), Str(<<" ">>), None},
        schedule \in SeqsUpTo(ScheduleItems, n)}

\* x.get(k, "").strip(): the stripped text, or AttributeError for None.
get_strip(d, k) ==
    LET v == Get(d, k, Str(<<>>)) IN
    IF v.type = "None"
    THEN [raised |-> TRUE, s |-> <<>>]
    ELSE [raised |-> FALSE, s |-> IF "s" \in DOMAIN v THEN strip(v.s) ELSE <<>>]

\* date_str is falsy after strip().
date_is_empty(date_str) == date_str.kind \in {"empty", "blank"}

\* "&".join(f"{k}={v}" for k, v in query if v) (calendar_tool.py:79).
query_string(query) == SelectSeq(query, LAMBDA kv : kv[2] # <<>>)

\* One iteration of the loop (calendar_tool.py:33-86): the entry is skipped,
\* the call raises, or the entry is returned with its url.
gcal_entry(title, summary, schedule_item) ==
    LET description == get_strip(schedule_item, "description")
        date_str == Get(schedule_item, "date", DateText("empty", 0, 0, 0, "."))
        location == get_strip(schedule_item, "location")
    IN  IF description.raised \/ date_str.type = "None" \/ location.raised
        THEN [does |-> "raise"]
        ELSE IF date_is_empty(date_str)
        THEN [does |-> "skip"]
        ELSE
        LET date_parts_ == date_parts(date_str) IN
        IF Len(date_parts_) # 3 \/ \E k \in 1 .. 3 : ~date_parts_[k].is_int
        THEN [does |-> "skip"]
        ELSE
        LET year == date_parts_[1].n
            month == date_parts_[2].n
            day == date_parts_[3].n
            dates == <<ToString(yyyymmdd(year, month, day)), "/",
                       ToString(end_date(year, month, day))>>
            event_title == IF description.s # <<>>
                           THEN title \o <<" ", "-", " ">> \o description.s
                           ELSE title
            place == IF location.s # <<>>
                     THEN <<"[", "place", "]", " ">> \o location.s ELSE <<>>
            details == IF summary = <<>> THEN place
                       ELSE IF place = <<>> THEN summary
                       ELSE place \o <<"\n", "\n">> \o summary
            query == << <<"action", <<"TEMPLATE">> >>,
                        <<"text", enc(event_title, FALSE)>>,
                        <<"dates", enc(dates, TRUE)>>,
                        <<"details", enc(details, FALSE)>>,
                        <<"ctz", enc(<<"Asia", "/", "Seoul">>, FALSE)>> >>
        IN  [does |-> "append",
             item |-> [entry |-> schedule_item,
                       url   |-> query_string(query)]]

\* The loop over schedule: None when an iteration raises, else the result.
RECURSIVE gcal_loop(_, _, _)
gcal_loop(title, summary, schedule) ==
    IF schedule = <<>>
    THEN Returned(<<>>)
    ELSE LET e == gcal_entry(title, summary, Head(schedule))
             rest == gcal_loop(title, summary, Tail(schedule))
         IN  IF e.does = "raise" \/ rest.raised
             THEN Raised
             ELSE IF e.does = "skip"
             THEN rest
             ELSE Returned(<<e.item>> \o rest.value)

\* build_gcal_urls (calendar_tool.py:14-86).
build_gcal_urls(item) ==
    LET schedule == Get(item, "schedule", <<>>)
        t == Get(item, "title", None)
        title == IF t.type = "None" \/ t.s = <<>>
                 THEN <<"untitled">> ELSE strip(t.s)
        sm == Get(item, "summary", None)
        summary == IF sm.type = "None" THEN <<>> ELSE strip(sm.s)
    IN  IF schedule = <<>> THEN Returned(<<>>)
        ELSE gcal_loop(title, summary, schedule)

\* One call of build_gcal_urls.
BuildGcalUrls ==
    /\ unit_call = [fn |-> "none"]
    /\ \E item \in GcalItems(MaxEntries) :
          /\ unit_call' = [fn |-> "build_gcal_urls", item |-> item]
          /\ unit_result' = build_gcal_urls(item)
    /\ UNCHANGED <<runVars, graphVars, suggestVars, ocrVars>>

-----------------------------------------------------------------------------
(* GeminiSummarizer.summarize: the extraction of the JSON object from the   *)
(* answer of the model (ai/SummaryContent.py:87-125)                        *)

\* The answer of the model is the sequence of its pieces:
\*   "{" "}"  a brace outside every string
\*   "m"      a member of an object, '"a": 1' (with its comma if it needs one)
\*   "k"      a key and its colon, '"o":', which an object has to follow
\*   "b"      a member whose value is a string holding a closing brace,
\*            '"c": "}"'
\*   "w"      words, which are no JSON
\*   " "      whitespace
ResponsePieces == {"{", "}", "m", "k", "b", "w", " "}

\* 'b' cut after its brace, '"c": "}': a string that never ends.
CutString == "b-cut"

\* response = self.model.generate_content(...); response.text: a text, or an
\* exception of the API or of the .text property (a blocked answer).
ApiRaises == [kind |-> "raises"]

ResponseText(text) == [kind |-> "text", text |-> text]

Responses(n) ==
    {ApiRaises} \cup {ResponseText(s) : s \in SeqsUpTo(ResponsePieces, n)}

\* self.model: the GenerativeModel, or None when __init__ failed.
Models == {"GenerativeModel", "None"}

\* The positions of raw_response_text that hold an opening and a closing
\* brace character.
OpeningAt(raw_response_text) ==
    {p \in 1 .. Len(raw_response_text) : raw_response_text[p] = "{"}

ClosingAt(raw_response_text) ==
    {p \in 1 .. Len(raw_response_text) : raw_response_text[p] \in {"}", "b"}}

Least(S) == CHOOSE p \in S : \A q \in S : p <= q

Greatest(S) == CHOOSE p \in S : \A q \in S : q <= p

NoMatch == [found |-> FALSE, group0 |-> <<>>]

\* re.search(r'\{.*\}', raw_response_text, re.DOTALL): the leftmost opening
\* brace that a closing brace follows, and, '.*' being greedy and matching
\* newlines, everything up to the last closing brace of the text.
json_match(raw_response_text) ==
    LET opening == OpeningAt(raw_response_text)
        closing == ClosingAt(raw_response_text)
    IN  IF opening = {} \/ {p \in closing : p > Least(opening)} = {}
        THEN NoMatch
        ELSE LET first == Least(opening)
                 last  == Greatest(closing)
             IN  [found  |-> TRUE,
                  group0 |->
                      IF raw_response_text[last] = "b"
                      THEN SubSeq(raw_response_text, first, last - 1)
                               \o <<CutString>>
                      ELSE SubSeq(raw_response_text, first, last)]

\* The JSON grammar of an object: "{", members, "}", a member being "m", "b"
\* or "k" and an object.  ParseObject is the position after the object that
\* starts at position p of s, 0 when none starts there.
RECURSIVE ParseObject(_, _), ParseMembers(_, _)
ParseObject(s, p) ==
    IF p > Len(s) \/ s[p] # "{" THEN 0 ELSE ParseMembers(s, p + 1)

ParseMembers(s, p) ==
    IF p > Len(s) THEN 0
    ELSE CASE s[p] = "}" -> p + 1
           [] s[p] \in {"m", "b"} -> ParseMembers(s, p + 1)
           [] s[p] = "k" ->
                LET q == ParseObject(s, p + 1)
                IN  IF q = 0 THEN 0 ELSE ParseMembers(s, q)
           [] OTHER -> 0

\* json.loads(json_string) returns: json_string is one JSON value, whitespace
\* between its tokens allowed; it raises JSONDecodeError otherwise.
json_loads_returns(json_string) ==
    LET tokens == SelectSeq(json_string, LAMBDA piece : piece \notin Whitespace)
    IN  /\ tokens # <<>>
        /\ ParseObject(tokens, 1) = Len(tokens) + 1

\* A text summarize returns on its success path.
JsonString(text) == [kind |-> "json_string", value |-> text]

\* summarize without line 115, the json.loads of the span.
summarize_response_unvalidated(model, response) ==
    IF model = "None" THEN Returned(FailureText)
    ELSE IF response.kind = "raises" THEN Returned(FailureText)
    ELSE LET found == json_match(response.text)
         IN  IF found.found
             THEN Returned(JsonString(strip(found.group0)))
             ELSE Returned(FailureText)

\* summarize (SummaryContent.py:87-125) on the answer of the model: the
\* failure text when there is no model; inside the try, the span of the
\* regular expression once json.loads accepted it; the failure text from the
\* except for every exception (of the API, the ValueError of a missing span,
\* the JSONDecodeError of json.loads).
summarize_response(model, response) ==
    IF model = "None" THEN Returned(FailureText)
    ELSE IF response.kind = "raises" THEN Returned(FailureText)
    ELSE LET found == json_match(response.text)
         IN  IF found.found
             THEN IF json_loads_returns(found.group0)
                  THEN Returned(JsonString(strip(found.group0)))
                  ELSE Returned(FailureText)
             ELSE Returned(FailureText)

Summarize ==
    /\ unit_call = [fn |-> "none"]
    /\ \E model \in Models, response \in Responses(MaxResponseLen) :
          /\ unit_call' = [fn |-> "summarize", model |-> model,
                           response |-> response]
          /\ unit_result' = summarize_response(model, response)
    /\ UNCHANGED <<runVars, graphVars, suggestVars, ocrVars>>

-----------------------------------------------------------------------------
(* The specifications                                                       *)

\* What is left of the fetch_with_retry call of an item once the fetch phase
\* is over: it returned at the first call or at the last one, or it raised.
ReturnedTasks ==
    {t \in {Retired(fetch_with_retry([NewTask EXCEPT !.attempt = a], o)) :
                a \in {0, max_retries}, o \in FetchOutcomes} :
        t.st # "idle"}

\* The items of final_results in the order of results, which is the order in
\* which one AI worker after the other completes them.
DoneInOrder == SelectSeq(Indices(all_notifications), LAMBDA i : proc[i] = "done")

\* The send phase alone: main at main.py:224, when the last AI task has
\* completed, on a batch of 'fast' notifications.
InitSend ==
    /\ all_notifications \in
          {b \in Batches(MaxSendItems) :
              \A k \in 1 .. Len(b) : b[k].domain \in fast_domains}
    /\ phase = "process"
    /\ fetch \in [1 .. Len(all_notifications) -> ReturnedTasks]
    /\ calls = [i \in 1 .. Len(all_notifications) |-> <<>>]
    /\ results = sorted(crawl_all_content)
    /\ outcome \in [1 .. Len(all_notifications) -> PipelineOutcomes \cup {"none"}]
    /\ \A i \in 1 .. Len(all_notifications) :
          outcome[i] = "none" <=> ~(/\ fetch[i].st = "returned"
                                    /\ fetch[i].content_data.fetch_success)
    /\ proc = [i \in 1 .. Len(all_notifications) |->
                 IF outcome[i] = "none" THEN "none" ELSE "done"]
    /\ run_result = [i \in 1 .. Len(all_notifications) |->
                       IF outcome[i] = "none"
                       THEN NoResult ELSE run(TitleOf(i), outcome[i])]
    /\ ai_summary = [i \in 1 .. Len(all_notifications) |->
                       IF outcome[i] = "none"
                       THEN NoSummary
                       ELSE process_ai_summary(TitleOf(i), run_result[i])]
    /\ final_results = DoneInOrder
    /\ send = [i \in 1 .. Len(all_notifications) |-> "none"]
    /\ mail = [i \in 1 .. Len(all_notifications) |-> NoMail]
    /\ email_log = <<>>
    /\ transport_calls = [i \in 1 .. Len(all_notifications) |-> <<>>]
    /\ GraphIdle
    /\ SuggestIdle
    /\ UnitIdle
    /\ OcrIdle

NextSend ==
    \/ SummaryPhaseEnd
    \/ \E i \in Items : SendEmailAny(i)

SpecSend == InitSend /\ [][NextSend]_vars

\* One call of SuggestionEngine.
InitSuggest == RunIdle /\ GraphIdle /\ SuggestIdle /\ UnitIdle /\ OcrIdle

NextSuggest ==
    \/ ConsolidateSuggestions
    \/ GenerateParsingSuggestions
    \/ GenerateDeadlineSuggestions
    \/ GenerateErrorSuggestions
    \/ GenerateQualitySuggestions
    \/ GenerateGeneralSuggestions

SpecSuggest == InitSuggest /\ [][NextSuggest]_vars

\* The pool size of crawl_all_content, for one batch.
InitPool == RunIdle /\ GraphIdle /\ SuggestIdle /\ UnitIdle /\ OcrIdle

NextPool == CrawlPoolSize

SpecPool == InitPool /\ [][NextPool]_vars

\* categorize_notifications on every batch of up to MaxCategorizeItems
\* notifications.
InitCategorize == RunIdle /\ GraphIdle /\ SuggestIdle /\ UnitIdle /\ OcrIdle

NextCategorize == CategorizeNotifications

SpecCategorize == InitCategorize /\ [][NextCategorize]_vars

\* One call of the Summary node on every text of the summarizer.
InitSummaryNode == RunIdle /\ GraphIdle /\ SuggestIdle /\ UnitIdle /\ OcrIdle

NextSummaryNode == SummaryNodeOnText \/ SummaryNodeOnJson

SpecSummaryNode == InitSummaryNode /\ [][NextSummaryNode]_vars

\* One call of build_gcal_urls.
InitCalendar == RunIdle /\ GraphIdle /\ SuggestIdle /\ UnitIdle /\ OcrIdle

NextCalendar == BuildGcalUrls

SpecCalendar == InitCalendar /\ [][NextCalendar]_vars

\* One call of GeminiSummarizer.summarize on every answer of the model.
InitSummarize == RunIdle /\ GraphIdle /\ SuggestIdle /\ UnitIdle /\ OcrIdle

NextSummarize == Summarize

SpecSummarize == InitSummarize /\ [][NextSummarize]_vars

\* One traversal of the graph, for one item.
InitGraph == RunIdle /\ GraphStart /\ SuggestIdle /\ UnitIdle /\ OcrIdle

NextGraph == GraphBranch \/ OcrImage \/ OcrReturn \/ SummaryNode

SpecGraph == InitGraph /\ [][NextGraph]_vars

\* The worker that runs the traversal keeps running it.
SpecGraphFair == SpecGraph /\ WF_vars(NextGraph)

\* The workers of the AI pool asking for the OCR engine handle.
InitOcr ==
    /\ RunIdle /\ GraphIdle /\ SuggestIdle /\ UnitIdle
    /\ PADDLEOCR_AVAILABLE \in BOOLEAN
    /\ ocr_instance = NoInstance
    /\ ocr_built = 0
    /\ ocr_worker = [w \in OcrWorkers |-> NewOcrWorker]

NextOcr ==
    \/ \E w \in OcrWorkers : GetOcrTest(w)
    \/ \E w \in OcrWorkers : GetOcrConstruct(w)
    \/ \E w \in OcrWorkers : GetOcrReturn(w)

SpecOcr == InitOcr /\ [][NextOcr]_vars

-----------------------------------------------------------------------------
(* Properties                                                               *)

\* Item i's fetch_with_retry returned content with fetch_success.
FetchSucceeded(i) ==
    fetch[i].st = "returned" /\ fetch[i].content_data.fetch_success

InResults(i) == \E k \in 1 .. Len(results) : results[k].item = i

\* A fetch_with_retry call for item i is in progress.
InFetch(i) ==
    /\ phase = "fetch"
    /\ \/ fetch[i].st = "fetching"
       \/ fetch[i].st = "idle" /\ fetch[i].attempt > 0

SameGroup(i, j) ==
    /\ ~IsFast(i)
    /\ all_notifications[i].domain = all_notifications[j].domain

\* The pipeline run of item i met a summarization failure: summarize
\* returned its failure text, or an exception was raised.
SummarizationFailed(i) ==
    outcome[i] \in {"failure", "node_raises", "graph_raises"}

\* C1: once crawl_all_content has returned, the result list holds exactly
\* one result per input item, whatever the fetcher did.
C1_OneResultPerItem ==
    phase # "fetch" =>
        /\ Len(results) = Len(all_notifications)
        /\ \A i \in Items : InResults(i)

\* C2: the message delivered for an item whose summarization failed is
\* built from the marked placeholder: the original title and the
\* 'AI processing failed' fields, never empty fields.
C2_FailureMailIsPlaceholder ==
    \A i \in Items :
        (SummarizationFailed(i) /\ mail[i].delivered) =>
            /\ mail[i].body.title = TitleOf(i)
            /\ mail[i].body.schedule = "AI processing failed"

\* C3: when summarization or parsing fails, what run hands back has status
\* error (not success), an error message and a non-empty suggestion list;
\* and every submitted sibling still completes its own run.
C3_FailureIsErrorResult ==
    /\ \A i \in Items :
          (proc[i] = "done" /\ SummarizationFailed(i)) =>
              /\ run_result[i].status = "error"
              /\ "error" \in DOMAIN run_result[i].json_summary
              /\ "suggestions" \in DOMAIN run_result[i].json_summary
              /\ Len(Get(run_result[i].json_summary, "suggestions", <<>>)) > 0
    /\ phase = "send" => \A i \in Items : proc[i] \in {"none", "done"}

\* C4: after the run, email_log holds exactly one row per item that reached
\* the distribution (send_email ran for it), and none for any other item.
C4_OneLogRowPerAttempt ==
    RunOver =>
        /\ Len(email_log) = Cardinality({i \in Items : send[i] \in SendOutcomes})
        /\ \A k \in 1 .. Len(email_log) :
              \E i \in Items :
                  /\ send[i] \in SendOutcomes
                  /\ email_log[k].notification_id
                         = all_notifications[i].notification_id

\* The loop of item j's own domain has reached j, which waits to be fetched.
NextInLine(j) ==
    /\ fetch[j].st = "idle"
    /\ \A m \in EarlierInGroup(j) : fetch[m].st = "returned"

\* C5: no two items of the same grouped domain are inside fetch_with_retry
\* at the same time; and while an item of one grouped domain is being
\* fetched, the next item of another grouped domain can start its fetch.
C5_SerialWithinGroup ==
    \A i, j \in Items :
        /\ (i # j /\ SameGroup(i, j)) => ~(InFetch(i) /\ InFetch(j))
        /\ (/\ ~IsFast(i) /\ ~IsFast(j)
            /\ all_notifications[i].domain # all_notifications[j].domain
            /\ InFetch(i) /\ NextInLine(j) /\ phase = "fetch")
               => ENABLED FetchStart(j)

\* Two grouped domains have a fetch_content call in flight at once, and one
\* of them has a second item waiting for its turn.
C5_Witness ==
    \E i, j, k \in Items :
        /\ ~IsFast(i) /\ ~IsFast(j)
        /\ all_notifications[i].domain # all_notifications[j].domain
        /\ fetch[i].st = "fetching" /\ fetch[j].st = "fetching"
        /\ k > i /\ SameGroup(i, k) /\ fetch[k].st = "idle"

\* C6: fetch_with_retry calls fetch_content at most 3 times per item, never
\* again after a successful call, exactly 3 times when every call reports
\* failure, and then returns the third call's content, failed, with the
\* third call's error.
C6_RetryBound ==
    phase = "fetch" =>
        \A i \in Items :
            /\ Len(calls[i]) <= 3
            /\ \A k \in 1 .. Len(calls[i]) - 1 : calls[i][k] = "fail"
            /\ (fetch[i].st = "returned" /\ fetch[i].content_data.fetch_success)
                   => calls[i][Len(calls[i])] = "ok"
            /\ (fetch[i].st = "returned" /\ ~fetch[i].content_data.fetch_success)
                   => /\ calls[i] = <<"fail", "fail", "fail">>
                      /\ fetch[i].content_data = fetch_content(3, "fail")
            /\ calls[i] = <<"fail", "fail", "fail">>
                   => /\ fetch[i].st = "returned"
                      /\ ~fetch[i].content_data.fetch_success
                      /\ fetch[i].content_data.error = 3

\* An item was retried to exhaustion and its failed result returned.
C6_Witness ==
    \E i \in Items :
        /\ fetch[i].st = "returned"
        /\ calls[i] = <<"fail", "fail", "fail">>

FirstOnDomain(i) ==
    CHOOSE k \in Items :
        /\ all_notifications[k].domain = all_notifications[i].domain
        /\ \A j \in 1 .. k - 1 :
               all_notifications[j].domain # all_notifications[i].domain

\* Item i comes before item j in a list of fast items in input order
\* followed by the grouped domains in order of first appearance, each in
\* input order.
ComesBefore(i, j) ==
    IF IsFast(i) /\ IsFast(j) THEN i < j
    ELSE IF IsFast(i) # IsFast(j) THEN IsFast(i)
    ELSE IF all_notifications[i].domain = all_notifications[j].domain THEN i < j
    ELSE FirstOnDomain(i) < FirstOnDomain(j)

\* C36: whatever the order in which the fetches ended, the list
\* crawl_all_content returns has the fast items in input order, then the
\* items of each grouped domain in input order, the domains in order of
\* first appearance.
C36_OrderFromInputOnly ==
    AllFetchTasksDone =>
        \A k, l \in 1 .. Len(crawl_all_content) :
            k < l => ComesBefore(crawl_all_content[k].item,
                                 crawl_all_content[l].item)

\* A list is returned that is not in input order: a grouped item, then a
\* fast one, then an item of a second grouped domain were given, and the
\* fast item, returned first, is the one whose fetch took all three attempts.
C36_Witness ==
    /\ phase = "process"
    /\ Len(all_notifications) = 3
    /\ ~IsFast(1) /\ IsFast(2) /\ ~IsFast(3)
    /\ all_notifications[1].domain # all_notifications[3].domain
    /\ [k \in 1 .. Len(crawl_all_content) |-> crawl_all_content[k].item]
           = <<2, 1, 3>>
    /\ fetch[2].content_data.error = 3

\* C8: once crawl_all_content has returned, every item whose fetch did not
\* succeed is in the results with fetch_success false.
C8_FailuresAreSurfaced ==
    phase # "fetch" =>
        \A i \in Items :
            ~FetchSucceeded(i) =>
                \E k \in 1 .. Len(results) :
                    results[k].item = i /\ ~results[k].fetch_success

\* C9: exactly the items whose fetch succeeded are handed to
\* process_ai_summary, each once; an item whose fetch failed is never
\* processed and never mailed.
C9_ExactlyFetchedAreProcessed ==
    /\ phase # "fetch" =>
          \A i \in Items : (proc[i] # "none") <=> FetchSucceeded(i)
    /\ \A k, l \in 1 .. Len(final_results) :
          k # l => final_results[k] # final_results[l]
    /\ \A i \in Items :
          ~FetchSucceeded(i) => proc[i] = "none" /\ send[i] = "none"

\* C10: no AI task exists before every fetch task is done, no mail task
\* before every AI task has completed, and an item is processed only after
\* its own fetch returned and mailed only after its own processing.
C10_PhaseBarriers ==
    \A i \in Items :
        /\ proc[i] # "none" => AllFetchTasksDone /\ fetch[i].st = "returned"
        /\ send[i] # "none" =>
              /\ \A j \in Items : proc[j] \in {"none", "done"}
              /\ proc[i] = "done"

\* Of two items, one has been mailed after its fetch and its processing.
C10_Witness ==
    /\ Len(all_notifications) >= 2
    /\ \E i \in Items : send[i] = "Email sent" /\ mail[i].delivered

\* The tasks that hold item i now: a fetch_with_retry call that has not
\* returned, a process_ai_summary task submitted and not completed, a
\* send_email task submitted and not completed.
WorkersOn(i) ==
    {t \in {"fetch", "process", "send"} :
        \/ t = "fetch" /\ fetch[i].st \in {"idle", "fetching"} /\ phase = "fetch"
        \/ t = "process" /\ proc[i] = "queued"
        \/ t = "send" /\ send[i] = "queued"}

\* How many pipeline invocations for item i have completed.
TimesProcessed(i) ==
    Cardinality({k \in 1 .. Len(final_results) : final_results[k] = i})

\* C35: every fetched item flows through exactly one pipeline invocation
\* (never more than one, and one once the processing phase is over), and at
\* no time do two workers, of the same or of different phases, hold the
\* same item.
C35_OneInvocationPerItem ==
    \A i \in Items :
        /\ TimesProcessed(i) <= 1
        /\ (phase = "send" /\ FetchSucceeded(i)) => TimesProcessed(i) = 1
        /\ Cardinality(WorkersOn(i)) <= 1

-----------------------------------------------------------------------------
(* Properties of the graph traversal                                        *)

\* The item has at least one image reference.
HasImages == image.present /\ Len(image.refs) >= 1

C12_ExtractionNonFatal ==
    /\ \A k \in 1 .. Len(ocr_text) :
          /\ ocr_text[k].filename = image.refs[k].filename
          /\ ocr_text[k].outcome = "fails" => ocr_text[k].ocr_text = ""
    /\ (node = "OCR_Node" /\ Len(ocr_text) < Len(image.refs)) => ENABLED OcrImage
    /\ (node = "OCR_Node" /\ Len(ocr_text) = Len(image.refs)) => ENABLED OcrReturn
    /\ visits.Summary_Node >= 1 => Len(ocr_text) = Len(image.refs)
    /\ node = "Error" => visits.Summary_Node = 1

\* The extraction of the first image failed, the second image was still
\* processed, and the item went through the Summary node to Done.
C12_Witness ==
    /\ node = "Done"
    /\ Len(ocr_text) >= 2
    /\ ocr_text[1].outcome = "fails"
    /\ ocr_text[2].outcome = "text"

\* C13: every node is entered at most once, no step is taken out of Done or
\* Error, and every traversal reaches Done or Error.
C13_SinglePass ==
    /\ [](\A n \in DOMAIN visits : visits[n] <= 1)
    /\ [][~Terminal]_vars
    /\ <>Terminal

\* A traversal through both nodes has ended in Error.
C13_Witness ==
    /\ node = "Error"
    /\ visits.OCR_Node = 1
    /\ visits.Summary_Node = 1

-----------------------------------------------------------------------------
(* Properties of the send phase                                             *)

\* The processing of item i completed: its process_ai_summary task returned.
Processed(i) == proc[i] = "done"

\* Item i's send_email task has run.
Attempted(i) == send[i] \in SendOutcomes

\* C14: every item whose processing completed, whether the summary succeeded
\* or failed, gets exactly one distribution attempt: in the send phase the
\* items with a send_email task are exactly the processed ones, at the end of
\* the run each of them has had its attempt, and an attempt that has been
\* made is never made again.
C14_EveryProcessedItemDistributed ==
    /\ [](phase = "send" => \A i \in Items : Processed(i) <=> send[i] # "none")
    /\ [](RunOver => \A i \in Items : Processed(i) => Attempted(i))
    /\ [][\A i \in Items :
             Attempted(i) => /\ send'[i] = send[i]
                             /\ mail'[i] = mail[i]
                             /\ transport_calls'[i] = transport_calls[i]]_vars

\* The run is over, one item's summary failed and another's succeeded, and
\* both were distributed to subscribers.
C14_Witness ==
    /\ RunOver
    /\ \E i, j \in Items :
          /\ SummarizationFailed(i) /\ run_result[j].status = "success"
          /\ Attempted(i) /\ Attempted(j)
          /\ mail[i].lookup = "found" /\ mail[j].lookup = "found"

\* C15: an error while an item's mail is rendered or transported is caught
\* inside that item's delivery: it does not leave _send_email, send_email
\* returns an outcome, and every other queued item can still be delivered.
C15_DeliveryErrorsContained ==
    /\ \A i \in Items :
          mail[i].error # "none" => ~mail[i].raised /\ Attempted(i)
    /\ \A j \in Items :
          (/\ send[j] = "queued"
           /\ \E i \in Items \ {j} : mail[i].error # "none")
              => ENABLED SendEmailAny(j)

\* One item's delivery hit an error, and another item's mail was delivered.
C15_Witness ==
    \E i, j \in Items :
        /\ mail[i].error \in {"render", "transport"}
        /\ mail[j].delivered /\ send[j] = "Email sent"

\* C16: when the notification id of an item is no key of the subscriber dict
\* or is mapped to an empty list, send returns its no-op outcome, raises
\* nothing, calls no transport, and the other items can still be delivered.
C16_NoSubscribersIsNoOp ==
    /\ \A i \in Items :
          mail[i].lookup \in {"absent", "empty"} =>
              /\ send[i] = IF mail[i].lookup = "absent"
                           THEN "No subscribers" ELSE "Empty subscriber list"
              /\ ~mail[i].raised
              /\ transport_calls[i] = <<>>
    /\ \A j \in Items :
          (/\ send[j] = "queued"
           /\ \E i \in Items \ {j} : mail[i].lookup \in {"absent", "empty"})
              => ENABLED SendEmailAny(j)

\* One item had no key, another an empty list, and the run is over.
C16_Witness ==
    /\ RunOver
    /\ \E i, j \in Items :
          mail[i].lookup = "absent" /\ mail[j].lookup = "empty"

\* C17: the transport is called at most once for an item, and the call is
\* addressed to all the recipients resolved for the item.
C17_OneTransportCallPerItem ==
    \A i \in Items :
        /\ Len(transport_calls[i]) <= 1
        /\ \A k \in 1 .. Len(transport_calls[i]) :
              transport_calls[i][k] = mail[i].to

\* An item with two subscribers was sent with one transport call.
C17_Witness ==
    \E i \in Items :
        /\ mail[i].to = Addresses
        /\ transport_calls[i] = <<Addresses>>

\* C37: send returns the "Email sent to N subscribers" outcome only when the
\* transport accepted the message, and when rendering or the transport
\* failed, the outcome returned to the caller says so.
C37_SentMeansAccepted ==
    \A i \in Items :
        /\ send[i] = "Email sent" => mail[i].delivered
        /\ mail[i].error \in {"render", "transport"}
               => send[i] = "Email sending failed"

-----------------------------------------------------------------------------
(* Properties of SuggestionEngine                                           *)

\* The call made is consolidate_suggestions on lists of suggestion texts and
\* an int.
ConsolidateCall ==
    /\ suggest_call.entry = "consolidate"
    /\ suggest_call.suggestion_lists.iterable
    /\ suggest_call.max_suggestions.is_int
    /\ \A k \in 1 .. Len(suggest_call.suggestion_lists.items) :
          LET l == suggest_call.suggestion_lists.items[k] IN
          l.is_list /\ Range(l.items) \subseteq Texts

\* Where t is first seen in s.
FirstSeen(s, t) == CHOOSE k \in 1 .. Len(s) : s[k] = t /\ \A j \in 1 .. k - 1 : s[j] # t

\* out is made of the distinct suggestions of the lists in first-seen order,
\* cut to n, and consolidating it again with n gives it back.
ConsolidateContract(lists, n, out) ==
    LET flat == all_suggestions(lists)
        unique_count == Cardinality(Range(flat))
    IN  /\ Len(out) = (IF unique_count < n THEN unique_count ELSE n)
        /\ Range(out) \subseteq Range(flat)
        /\ \A k, l \in 1 .. Len(out) :
              k < l => FirstSeen(flat, out[k]) < FirstSeen(flat, out[l])
        /\ \A t \in Range(flat) \ Range(out) :
              \A k \in 1 .. Len(out) :
                  FirstSeen(flat, out[k]) < FirstSeen(flat, t)
        /\ consolidate_suggestions(Iterable(<<ListOf(out)>>), Int_(n))
               = Returned(out)

\* C18 as stated: for all lists of suggestion lists and every max_count,
\* consolidate_suggestions returns the distinct suggestions in first-seen
\* order truncated to max_count, of length min(unique_count, max_count), and
\* is idempotent on its own output.
C18_ConsolidateEveryMaxCount ==
    ConsolidateCall =>
        /\ ~suggestions.raised
        /\ ConsolidateContract(suggest_call.suggestion_lists.items,
                               suggest_call.max_suggestions.n,
                               suggestions.value)

\* C18, amended: the same for every max_count that is not negative.
C18_ConsolidateNonNegativeMaxCount ==
    (ConsolidateCall /\ suggest_call.max_suggestions.n >= 0) =>
        /\ ~suggestions.raised
        /\ ConsolidateContract(suggest_call.suggestion_lists.items,
                               suggest_call.max_suggestions.n,
                               suggestions.value)

\* A call on two lists that share a suggestion, with more distinct
\* suggestions than max_count, has returned.
C18_Witness ==
    /\ ConsolidateCall
    /\ LET flat == all_suggestions(suggest_call.suggestion_lists.items)
           n == suggest_call.max_suggestions.n
       IN  /\ Len(suggest_call.suggestion_lists.items) = 2
           /\ Cardinality(Range(flat)) < Len(flat)
           /\ 0 < n /\ n < Cardinality(Range(flat))
           /\ Len(suggestions.value) = n

\* C19: consolidate_suggestions raises for no input, and when its body hits
\* an error it returns a list of exactly one fallback suggestion.
C19_ConsolidateNeverRaises ==
    suggest_call.entry = "consolidate" =>
        /\ ~suggestions.raised
        /\ consolidate_error(suggest_call.suggestion_lists,
                             suggest_call.max_suggestions)
               => /\ Len(suggestions.value) = 1
                  /\ suggestions.value[1] \notin Texts \cup {Unhashable}

\* A call whose second list holds an unhashable suggestion has returned the
\* fallback.
C19_Witness ==
    /\ suggest_call.entry = "consolidate"
    /\ suggest_call.suggestion_lists.iterable
    /\ Len(suggest_call.suggestion_lists.items) = 2
    /\ suggest_call.suggestion_lists.items[2] = ListOf(<<Unhashable>>)
    /\ suggestions = Returned(<<"contact the department in charge">>)

\* C20: whenever an entry point of SuggestionEngine has been called, the list
\* it returned is not empty.
C20_SuggestionsNeverEmpty ==
    suggest_call.entry # "none" =>
        /\ ~suggestions.raised
        /\ Len(suggestions.value) > 0

\* The classes of the error classifier in the order of its tests, and the
\* test of each.
ErrorClasses ==
    <<"credential", "connectivity", "malformed", "validation", "other">>

ErrorClassMatches(class, error_type, error_message) ==
    CASE class = "credential" ->
           "api" \in error_type \/ "key" \in error_message
      [] class = "connectivity" ->
           "network" \in error_type \/ "connection" \in error_message
      [] class = "malformed" ->
           "json" \in error_type \/ "parsing" \in error_message
      [] class = "validation" -> "validation" \in error_type
      [] OTHER -> TRUE

\* C32: generate_error_suggestions raises nothing and returns a non-empty
\* list; for a kind and a message that are texts the list is the message
\* set of the first class, in the order credential, connectivity,
\* malformed-response, validation, other, whose test matches, and of no
\* other class.
C32_ErrorClassByFirstMatch ==
    suggest_call.entry = "error" =>
        LET error_type == suggest_call.error.error_type
            error_message == suggest_call.error.error_message
        IN  /\ ~suggestions.raised
            /\ suggestions.value # <<>>
            /\ (error_type # NoText /\ error_message # NoText) =>
                   \E k \in DOMAIN ErrorClasses :
                       /\ ErrorClassMatches(ErrorClasses[k], error_type,
                                            error_message)
                       /\ \A j \in 1 .. k - 1 :
                             ~ErrorClassMatches(ErrorClasses[j], error_type,
                                                error_message)
                       /\ suggestions.value = ErrorMessages[ErrorClasses[k]]
                       /\ \A j \in DOMAIN ErrorClasses \ {k} :
                             suggestions.value # ErrorMessages[ErrorClasses[j]]

\* A kind that names the network with a message that names a key and
\* parsing: three classes match, the credential set is returned.
C32_Witness ==
    /\ suggest_call.entry = "error"
    /\ suggest_call.error.error_type = {"network"}
    /\ suggest_call.error.error_message = {"key", "parsing"}
    /\ suggestions = Returned(ErrorMessages.credential)

\* The messages of each bucket, whatever number of days they name.
DayCounts == 0 .. 40

BucketMessages(bucket) ==
    CASE bucket = "overdue" -> {"the deadline has passed"}
      [] bucket = "today"   -> {"the deadline is today"}
      [] bucket = "le3" ->
           {"due in " \o ToString(k) \o " days, hurry" : k \in DayCounts}
      [] bucket = "le7" ->
           {"due within a week, in " \o ToString(k) \o " days" : k \in DayCounts}
      [] bucket = "le14" -> {"due within two weeks"}
      [] bucket = "gt14" ->
           {ToString(k) \o " days to the deadline" : k \in DayCounts}
      [] OTHER -> {"check the format of the deadline"}

\* The bucket of a deadline days calendar days after today.
CalendarBucket(days) ==
    IF days < 0 THEN "overdue"
    ELSE IF days = 0 THEN "today"
    ELSE IF days <= 3 THEN "le3"
    ELSE IF days <= 7 THEN "le7"
    ELSE IF days <= 14 THEN "le14"
    ELSE "gt14"

\* C21: the deadline message follows the calendar-day distance between the
\* deadline and today, at whatever time of day the call is made: today gives
\* the 'today' message, a past date the overdue one, 1-3, 4-7, 8-14 and more
\* than 14 days their bucket's message, an unparseable text the fallback.
C21_DeadlineBuckets ==
    suggest_call.entry = "deadline" =>
        /\ suggest_call.date_str.kind = "date" =>
              /\ Len(suggestions.value) = 1
              /\ suggestions.value[1] \in
                     BucketMessages(CalendarBucket(suggest_call.date_str.days))
        /\ suggest_call.date_str.kind = "unparseable" =>
              suggestions.value = <<"check the format of the deadline">>

-----------------------------------------------------------------------------
(* Properties of build_gcal_urls                                            *)

GcalReturned == unit_call.fn = "build_gcal_urls" /\ ~unit_result.raised

\* The schedule given to the call.
GcalSchedule == Get(unit_call.item, "schedule", <<>>)

\* The date of a schedule entry, '' when it has none.
DateOf(schedule_item) ==
    Get(schedule_item, "date", DateText("empty", 0, 0, 0, "."))

\* The value of parameter k of a link, <<>> when the link has no such one.
Param(url, k) ==
    IF \E j \in 1 .. Len(url) : url[j][1] = k
    THEN url[CHOOSE j \in 1 .. Len(url) : url[j][1] = k][2]
    ELSE <<>>

\* The returned entries made from schedule entry e.
LinksOf(e) ==
    {k \in 1 .. Len(unit_result.value) : unit_result.value[k].entry = e}

\* The day after year-month-day, as YYYYMMDD.
NextDay(year, month, day) ==
    LET leap == (year % 4 = 0 /\ year % 100 # 0) \/ year % 400 = 0
        last == IF month = 2 THEN (IF leap THEN 29 ELSE 28)
                ELSE IF month \in {4, 6, 9, 11} THEN 30 ELSE 31
    IN  IF day < last THEN yyyymmdd(year, month, day + 1)
        ELSE IF month < 12 THEN yyyymmdd(year, month + 1, 1)
        ELSE yyyymmdd(year + 1, 1, 1)

\* C22: for every schedule entry dated YYYY.MM.DD with a valid calendar date,
\* the link has dates=<that day>/<the following calendar day>, also on the
\* last day of a month or of a year.
C22_EndIsNextCalendarDay ==
    GcalReturned =>
        \A k \in 1 .. Len(unit_result.value) :
            LET d == DateOf(unit_result.value[k].entry) IN
            (d \in CalendarDates /\ d.sep = ".") =>
                Param(unit_result.value[k].url, "dates")
                    = <<ToString(yyyymmdd(d.year, d.month, d.day)), "/",
                        ToString(NextDay(d.year, d.month, d.day))>>

\* The date of a schedule entry that has to be left out: missing, empty,
\* null, or a text that is no date.
NoUsableDate(e) ==
    \/ DateOf(e).type = "None"
    \/ DateOf(e).kind \in {"empty", "blank", "words"}

\* C23: build_gcal_urls never raises; an entry whose date is missing, empty,
\* null or not convertible is left out of the list, and every other entry is
\* returned with its link.
C23_GcalNeverRaises ==
    unit_call.fn = "build_gcal_urls" =>
        /\ ~unit_result.raised
        /\ \A k \in 1 .. Len(GcalSchedule) :
              LET e == GcalSchedule[k] IN
              IF NoUsableDate(e)
              THEN LinksOf(e) = {}
              ELSE DateOf(e) \in CalendarDates => LinksOf(e) # {}

\* C24: every schedule entry dated 'YYYY.MM.DD' or 'YYYY.MM.DD HH:MM' gets a
\* calendar link.
C24_BothFormatsGetALink ==
    GcalReturned =>
        \A k \in 1 .. Len(GcalSchedule) :
            LET e == GcalSchedule[k] IN
            ((DateOf(e) \in CalendarDates /\ DateOf(e).sep = ".")
                 \/ (DateOf(e).type = "str" /\ DateOf(e).kind = "ymd_hm"))
                => \E j \in LinksOf(e) : unit_result.value[j].url # <<>>

\* C25: every link carries action=TEMPLATE, text, dates, details and, bit for
\* bit, ctz=Asia/Seoul, in that order.
C25_LinkParameters ==
    GcalReturned =>
        \A k \in 1 .. Len(unit_result.value) :
            LET url == unit_result.value[k].url IN
            /\ [j \in 1 .. Len(url) |-> url[j][1]]
                   = <<"action", "text", "dates", "details", "ctz">>
            /\ Param(url, "action") = <<"TEMPLATE">>
            /\ Param(url, "ctz") = <<"Asia", "/", "Seoul">>

-----------------------------------------------------------------------------
(* Properties of categorize_notifications and of the pool size              *)

\* The domains of a batch that are not fast ones.
GroupedSources(batch) ==
    {batch[k].domain : k \in 1 .. Len(batch)} \ fast_domains

FastItems(batch) == {k \in 1 .. Len(batch) : batch[k].domain \in fast_domains}

\* C26: the pool has (number of distinct grouped sources) + min(20, number
\* of fast items) workers, and 1 when that sum is 0.
C26_PoolSize ==
    unit_call.fn = "max_workers" =>
        LET sources == Cardinality(GroupedSources(unit_call.batch))
            fast == Cardinality(FastItems(unit_call.batch))
            sum == sources + (IF fast < 20 THEN fast ELSE 20)
        IN  unit_result.value = (IF sum = 0 THEN 1 ELSE sum)

\* The pool was sized for two grouped sources and more than 20 fast items.
C26_Witness ==
    /\ unit_call.fn = "max_workers"
    /\ Cardinality(GroupedSources(unit_call.batch)) = 2
    /\ Cardinality(FastItems(unit_call.batch)) > 20
    /\ unit_result.value = 22

\* The buckets that hold position i of the batch: "fast", or the domain of a
\* group.
BucketsOf(categorized, i) ==
    (IF i \in Range(categorized.fast_notifications) THEN {"fast"} ELSE {})
        \cup {d \in DOMAIN categorized.domain_groups :
                 i \in Range(categorized.domain_groups[d])}

\* C30: categorize_notifications partitions the batch: every item is in
\* exactly one bucket, once; it is in the fast bucket exactly when its domain
\* is on the allow-list; the items of one domain are in the same bucket.
C30_CategorizePartitions ==
    unit_call.fn = "categorize_notifications" =>
        LET batch == unit_call.batch
            categorized == unit_result.value
            fast == categorized.fast_notifications
            groups == categorized.domain_groups
        IN  /\ \A i \in 1 .. Len(batch) :
                  /\ Cardinality(BucketsOf(categorized, i)) = 1
                  /\ BucketsOf(categorized, i) = {"fast"}
                         <=> batch[i].domain \in fast_domains
                  /\ \A j \in 1 .. Len(batch) :
                        batch[i].domain = batch[j].domain
                            => BucketsOf(categorized, i)
                                   = BucketsOf(categorized, j)
            /\ Len(fast) = Cardinality(Range(fast))
            /\ \A d \in DOMAIN groups :
                  Len(groups[d]) = Cardinality(Range(groups[d]))
            /\ Range(fast) \cup UNION {Range(groups[d]) : d \in DOMAIN groups}
                   = 1 .. Len(batch)

\* A batch with a fast item between two items of one grouped domain.
C30_Witness ==
    /\ unit_call.fn = "categorize_notifications"
    /\ Len(unit_call.batch) = 3
    /\ unit_call.batch[1].domain = "a.ssu.ac.kr"
    /\ unit_call.batch[2].domain \in fast_domains
    /\ unit_call.batch[3].domain = "a.ssu.ac.kr"
    /\ unit_result.value.fast_notifications = <<2>>
    /\ unit_result.value.domain_groups = ("a.ssu.ac.kr" :> <<1, 3>>)

-----------------------------------------------------------------------------
(* Properties of GeminiSummarizer.summarize                                 *)

SummarizeReturned == unit_call.fn = "summarize"

\* The well-formed {...} spans of a text: from an opening brace to a closing
\* brace, and one JSON object.
WellFormedSpans(text) ==
    {span \in (1 .. Len(text)) \X (1 .. Len(text)) :
        /\ span[1] <= span[2]
        /\ text[span[1]] = "{"
        /\ text[span[2]] = "}"
        /\ json_loads_returns(SubSeq(text, span[1], span[2]))}

\* The first of them: none starts before it, and none that starts with it
\* ends before it.
FirstWellFormedSpan(text) ==
    CHOOSE span \in WellFormedSpans(text) :
        \A other \in WellFormedSpans(text) :
            \/ span[1] < other[1]
            \/ span[1] = other[1] /\ span[2] <= other[2]

\* C28: summarize never raises, and what it returns is either the failure
\* text or the first well-formed {...} span of the answer, which parses as
\* JSON; text and further braces after the first object make no exception.
C28_SummarizeValidates ==
    SummarizeReturned =>
        /\ ~unit_result.raised
        /\ \/ StartsWithFailure(unit_result.value)
           \/ /\ unit_result.value.kind = "json_string"
              /\ unit_call.model = "GenerativeModel"
              /\ unit_call.response.kind = "text"
              /\ json_loads_returns(unit_result.value.value)
              /\ LET text == unit_call.response.text
                 IN  /\ WellFormedSpans(text) # {}
                     /\ unit_result.value.value =
                            SubSeq(text, FirstWellFormedSpan(text)[1],
                                   FirstWellFormedSpan(text)[2])

\* An answer with words after its object: the object alone is returned.
C28_Witness ==
    /\ SummarizeReturned
    /\ unit_call.model = "GenerativeModel"
    /\ unit_call.response = ResponseText(<<"{", "m", "}", " ", "w">>)
    /\ unit_result = Returned(JsonString(<<"{", "m", "}">>))

-----------------------------------------------------------------------------
(* Properties of the Summary node                                           *)

\* The Summary node ran and summarize returned to it.
SummarizeReturnedToNode ==
    unit_call.fn = "_Summary" /\ ~unit_call.exception.raised

NoDuplicates(list) ==
    \A k, l \in 1 .. Len(list) : list[k] = list[l] => k = l

\* C31: whenever summarize returns a text that parses as JSON, the empty
\* object and a partly filled one included, the node ends in success with
\* the parsed structure and a consolidated list of suggestions.
C31_JsonIsSuccess ==
    (SummarizeReturnedToNode /\ json_loads(unit_call.summary_result).ok) =>
        /\ unit_result.value.status = "success"
        /\ unit_result.value.parsed_data
               = json_loads(unit_call.summary_result).value
        /\ NoDuplicates(unit_result.value.suggestions)
        /\ Len(unit_result.value.suggestions) <= max_suggestions_default

\* C33: when the node ends with a parsing failure, the suggestions of its
\* error result are the malformed-response messages of the classifier.
C33_ParsingFailureIsMalformed ==
    (/\ SummarizeReturnedToNode
     /\ unit_result.value.status = "error"
     /\ unit_result.value.error = ParsingFailed) =>
        unit_result.value.suggestions = ErrorMessages.malformed

-----------------------------------------------------------------------------
(* Properties of titles and of the order of the lists                       *)

\* The title of the summary attached to item i.
AttachedTitle(i) ==
    LET data == Get(ai_summary[i], "data", JsonText(ai_summary[i]))
    IN  Get(json_loads(data).value, "title", "")

\* C27: for every processed item, the title of the summary attached to it
\* and the title in its message are the title fetched for the item, whatever
\* the summarization service returned.
C27_TitleIsOriginal ==
    \A i \in Items :
        /\ Processed(i) => AttachedTitle(i) = TitleOf(i)
        /\ (Processed(i) /\ Attempted(i) /\ mail[i].lookup = "found"
                /\ mail[i].error # "render")
               => mail[i].body.title = TitleOf(i)

\* The source ids of a list of items, and of a list of results.
IdsOf(s) == [k \in 1 .. Len(s) |-> all_notifications[s[k]].notification_id]

NonDecreasing(ids) == \A k \in 1 .. Len(ids) - 1 : ids[k] <= ids[k + 1]

\* s holds the entries of t, those of one source id in the order they have
\* in t: what a stable sort of t by source id keeps.
KeepsOrderOf(s, t) ==
    \A n \in NotificationIds :
        SelectSeq(s, LAMBDA r : r.notification_id = n)
            = SelectSeq(t, LAMBDA r : r.notification_id = n)

\* C29: the list that enters the processing phase is what the crawl
\* collected, ordered by non-decreasing source id by a stable sort, and the
\* list that enters the distribution phase, which is also the saved output,
\* is ordered by non-decreasing source id.
C29_ListsSortedBetweenPhases ==
    /\ phase \in {"process", "send"} =>
           /\ NonDecreasing([k \in 1 .. Len(results) |-> results[k].notification_id])
           /\ KeepsOrderOf(results, crawl_all_content)
    /\ phase = "send" => NonDecreasing(IdsOf(final_results))

-----------------------------------------------------------------------------
(* Properties of the OCR engine handle                                      *)

\* The handles the calls of _get_ocr_instance have returned so far.
HandlesReturned == UNION {ocr_worker[w].got : w \in DOMAIN ocr_worker}

\* C34: under any interleaving of the pool's workers the OCR engine is
\* constructed at most once in the process, and every call of
\* _get_ocr_instance that returns gives the same instance.
C34_OcrConstructedOnce ==
    /\ ocr_built <= 1
    /\ Cardinality(HandlesReturned) <= 1

-----------------------------------------------------------------------------
(* Termination of the run                                                   *)

\* The fetch of item i has ended with a result, successful or failed.
HasFetchResult(i) == fetch[i].st = "returned" /\ fetch[i].content_data.assigned

\* C38: when every call to a collaborator comes back and the workers are
\* scheduled fairly, the run ends: every item eventually has a terminal fetch
\* result, every item fetched with success eventually has its processing
\* completed, with a summary or with an error, and every processed item
\* eventually has its distribution attempt completed, whatever failures
\* happen at any stage.
C38_RunTerminates ==
    /\ <>RunOver
    /\ \A i \in 1 .. MaxItems :
          /\ <>(i \in Items => HasFetchResult(i))
          /\ []((i \in Items /\ FetchSucceeded(i))
                    => <>(i \in Items /\ proc[i] = "done"))
          /\ []((i \in Items /\ proc[i] = "done")
                    => <>(i \in Items /\ Attempted(i)))

====
